---- MODULE Spec2Model ----
(***************************************************************************)
(* Verification model of the sleek HTML toolkit: the character stream     *)
(* (QueueIterator over MatrixIterator), the HTML tokenizer, the two tree   *)
(* builders, the selector parser and matcher, and the element operations.  *)
(* Characters are one-character strings; strings are sequences of them.    *)
(***************************************************************************)
EXTENDS Integers, Sequences, FiniteSets, TLC

VARIABLES
    input,      \* the source string handed to tokenize / parse_html_input
    mode,       \* "Tokenize" (no listener), "Synchronous" or "Speculative"
    state,      \* tokenizer State, or "Done" / "Abort"
    it,         \* QueueMatrix<Chars>: pushback queue and matrix position
    ts,         \* TokenStore
    parser,     \* speculative Parser (tree, current_element, open_tags, errors)
    sync,       \* SyncHtmlParser (tokens, index, rev_separator, errors, call stack)
    elems,      \* the heap of Element objects, indexed by ElementRef
    sel,        \* parse_selector: chars, store and state
    dom,        \* bookkeeping of the element-operation driver (last call)
    query       \* query_selector / query_selector_all driver

vars == <<input, mode, state, it, ts, parser, sync, elems, sel, dom, query>>

\* Option<char> of the iterators: a character or None
None == "None"
\* Option<T> of data fields: the empty sequence is None, <<x>> is Some(x)
NoneOpt == <<>>
Some(x) == <<x>>
IsSome(o) == o # <<>>
Unwrap(o) == o[1]

(***************************************************************************)
(* Characters                                                              *)
(***************************************************************************)
NUL == "NUL"
LowerSeq == <<"a","b","c","d","e","f","g","h","i","j","k","l","m",
              "n","o","p","q","r","s","t","u","v","w","x","y","z">>
UpperSeq == <<"A","B","C","D","E","F","G","H","I","J","K","L","M",
              "N","O","P","Q","R","S","T","U","V","W","X","Y","Z">>
Lower == {LowerSeq[i] : i \in DOMAIN LowerSeq}
Upper == {UpperSeq[i] : i \in DOMAIN UpperSeq}
Digits == {"0","1","2","3","4","5","6","7","8","9"}
Whitespace == {" ", "\n", "\t", "\r", "\f"}
Punct == {"<", ">", "/", "!", "-", "=", "'", "\"", "$", ".", "#", "[", "]",
          ":", ",", "*", "+", "~", "_", "(", ")"}
Chars == Lower \cup Upper \cup Digits \cup Whitespace \cup Punct \cup {NUL}

\* char::to_ascii_lowercase
ToLower(ch) ==
    IF ch \in Upper THEN LowerSeq[CHOOSE i \in DOMAIN UpperSeq : UpperSeq[i] = ch]
    ELSE ch
\* str::to_ascii_lowercase
LowerStr(s) == [i \in DOMAIN s |-> ToLower(s[i])]
\* char::is_whitespace
IsWhitespace(ch) == ch \in Whitespace
\* char::is_ascii_alphanumeric
IsAlnum(ch) == ch \in Lower \cup Upper \cup Digits
\* char::is_numeric
IsNumeric(ch) == ch \in Digits


(***************************************************************************)
(* MatrixIterator (row / column tracking) under QueueIterator (pushback)   *)
(***************************************************************************)
\* QueueIterator::new(MatrixIterator::new(input.chars(), '\n'))
NewIterator ==
    [front |-> <<>>, pos |-> 0, row |-> 1, column |-> 1,
     offset |-> <<1, 1>>, row_lengths |-> <<>>, panic |-> FALSE]

\* MatrixIterator::locus
Locus(i) == i.offset

\* MatrixIterator::move_offset
MoveOffset(i) ==
    IF i.offset[1] < i.row
    THEN IF i.offset[1] < 1 \/ i.offset[1] > Len(i.row_lengths)
         THEN [i EXCEPT !.panic = TRUE]
         ELSE IF i.offset[2] + 1 > i.row_lengths[i.offset[1]]
              THEN [i EXCEPT !.offset = <<i.offset[1] + 1, 1>>]
              ELSE [i EXCEPT !.offset = <<i.offset[1], i.offset[2] + 1>>]
    ELSE [i EXCEPT !.offset = <<i.offset[1], i.offset[2] + 1>>]

\* MatrixIterator::next, the item is the delineator
EndOfRow(i) ==
    [(IF i.offset = <<i.row, i.column>>
      THEN [i EXCEPT !.row_lengths = Append(@, i.column),
                     !.offset = <<@[1] + 1, 1>>]
      ELSE MoveOffset([i EXCEPT !.row_lengths = Append(@, i.column)]))
     EXCEPT !.row = @ + 1, !.column = 1]

\* MatrixIterator::next, any other item
InRow(i) == [MoveOffset(i) EXCEPT !.column = @ + 1]

\* MatrixIterator::next
MatrixNext(i) ==
    IF i.pos >= Len(input) THEN [ch |-> None, it |-> i]
    ELSE [ch |-> input[i.pos + 1],
          it |-> IF input[i.pos + 1] = "\n" THEN EndOfRow([i EXCEPT !.pos = @ + 1])
                 ELSE InRow([i EXCEPT !.pos = @ + 1])]

\* left that lands on the first column of the previous row
LeftToRowStart(i) ==
    IF i.offset[2] = 1
    THEN IF i.row_lengths = <<>> \/ i.offset[1] - 1 < 1
              \/ i.offset[1] - 1 > Len(i.row_lengths)
         THEN [i EXCEPT !.panic = TRUE]
         ELSE [i EXCEPT !.offset = <<i.offset[1] - 1, 1>>]
    ELSE [i EXCEPT !.offset = <<i.offset[1], i.offset[2] - 1>>]

\* MatrixIterator::left
Left(i) ==
    IF i.offset[2] = 1
    THEN IF i.row_lengths = <<>> \/ i.offset[1] - 1 < 1
              \/ i.offset[1] - 1 > Len(i.row_lengths)
         THEN [i EXCEPT !.panic = TRUE]
         ELSE [i EXCEPT !.offset = <<i.offset[1] - 1, i.row_lengths[i.offset[1] - 1]>>]
    ELSE [i EXCEPT !.offset = <<i.offset[1], i.offset[2] - 1>>]

\* QueueIterator::next
Next_(i) ==
    IF i.front # <<>>
    THEN [ch |-> Head(i.front), it |-> [i EXCEPT !.front = Tail(i.front)]]
    ELSE MatrixNext(i)

\* push that puts the item before the pending ones
PushFront(i, ch) == [i EXCEPT !.front = <<ch>> \o i.front]

\* QueueIterator::push
Push(i, ch) == [i EXCEPT !.front = Append(i.front, ch)]

\* What is still to be returned by next(): the pushback queue, then the source.
Remaining(i) == i.front \o SubSeq(input, i.pos + 1, Len(input))

\* QueueIterator::next_while(f), f given as the set of items it accepts
RECURSIVE NextWhile(_, _)
NextWhile(i, S) ==
    LET got(r) == IF r.ch = None THEN r.it
                  ELSE IF r.ch \notin S THEN Push(r.it, r.ch)
                  ELSE NextWhile(r.it, S)
    IN got(Next_(i))

\* QueueIterator::next_until(f), f given as the set of items it accepts
RECURSIVE NextUntil(_, _)
NextUntil(i, S) ==
    LET got(r) == IF r.ch = None THEN r.it
                  ELSE IF r.ch \in S THEN Push(r.it, r.ch)
                  ELSE NextUntil(r.it, S)
    IN got(Next_(i))

\* QueueIterator::collect_until(f): [str, it]
RECURSIVE CollectUntil(_, _, _)
CollectUntil(i, S, acc) ==
    LET got(r) == IF r.ch = None THEN [str |-> acc, it |-> r.it]
                  ELSE IF r.ch \in S THEN [str |-> acc, it |-> Push(r.it, r.ch)]
                  ELSE CollectUntil(r.it, S, Append(acc, r.ch))
    IN got(Next_(i))

\* HigherOrderIterator::collect_next(n): [str, it]
RECURSIVE CollectNext(_, _, _)
CollectNext(i, n, acc) ==
    LET got(r) == CollectNext(r.it, n - 1, IF r.ch = None THEN acc ELSE Append(acc, r.ch))
    IN IF n = 0 THEN [str |-> acc, it |-> i] ELSE got(Next_(i))

\* Iterator::find(|ch| ch in S): consumes up to and including the first hit
RECURSIVE Find(_, _)
Find(i, S) ==
    LET got(r) == IF r.ch = None \/ r.ch \in S THEN r.it ELSE Find(r.it, S)
    IN got(Next_(i))

(***************************************************************************)
(* Tags                                                                    *)
(***************************************************************************)
\* HtmlTag::new: tags are case-normalized to lowercase
HtmlTagNew(s) == LowerStr(s)

VoidTags == {<<"a","r","e","a">>, <<"b","a","s","e">>, <<"b","r">>, <<"c","o","l">>,
             <<"e","m","b","e","d">>, <<"h","r">>, <<"i","m","g">>,
             <<"i","n","p","u","t">>, <<"l","i","n","k">>, <<"m","e","t","a">>,
             <<"s","o","u","r","c","e">>, <<"t","r","a","c","k">>, <<"w","b","r">>}
\* HtmlTag::is_void
IsVoid(tag) == tag \in VoidTags
TagScript == <<"s","c","r","i","p","t">>
TagStyle == <<"s","t","y","l","e">>

(***************************************************************************)
(* TokenStore                                                              *)
(***************************************************************************)
\* TokenStore::new
NewTokenStore ==
    [tokens |-> <<>>, errors |-> <<>>, has_data |-> FALSE, attrib_store |-> <<>>,
     cache0 |-> <<>>, cache1 |-> <<>>, cache2 |-> NoneOpt, loc |-> <<0, 0>>,
     sink |-> <<>>, panic |-> FALSE]

Err(type, arg, location) == [error_type |-> type, arg |-> arg, location |-> location]

\* TokenStore::push
StorePush(t, ch) == [t EXCEPT !.has_data = TRUE, !.cache0 = Append(@, ch)]
\* TokenStore::push_str
PushStr(t, s) == [t EXCEPT !.cache0 = @ \o s]
\* TokenStore::push_attr_name
PushAttrName(t, ch) == [t EXCEPT !.cache1 = Append(@, ch)]
\* TokenStore::push_attr_value
PushAttrValue(t, ch) ==
    [t EXCEPT !.cache2 = IF IsSome(@) THEN Some(Append(Unwrap(@), ch))
                         ELSE Some(<<ch>>)]
\* collect_attribute that puts the attribute in front of the collected ones
CollectAttributeInFront(t, quote_type) ==
    [t EXCEPT !.attrib_store =
                  <<[key |-> t.cache1, value |-> t.cache2,
                     quote_type |-> quote_type]>> \o @,
              !.cache1 = <<>>, !.cache2 = NoneOpt]

\* TokenStore::collect_attribute
CollectAttribute(t, quote_type) ==
    [t EXCEPT !.attrib_store =
                  Append(@, [key |-> t.cache1, value |-> t.cache2,
                             quote_type |-> quote_type]),
              !.cache1 = <<>>, !.cache2 = NoneOpt]

\* TokenStore::error
Error(t, type, arg, i) == [t EXCEPT !.errors = Append(@, Err(type, arg, Locus(i)))]
\* TokenStore::set_start (usize subtraction: column 0 cannot be decremented)
SetStart(t, i) ==
    IF Locus(i)[2] = 0 THEN [t EXCEPT !.panic = TRUE]
    ELSE [t EXCEPT !.loc = <<Locus(i)[1], Locus(i)[2] - 1>>]
\* TokenStore::empty
Empty(t) == ~t.has_data
\* TokenStore::clear
Clear(t) == [t EXCEPT !.cache0 = <<>>, !.cache1 = <<>>, !.cache2 = NoneOpt]

\* content.is_empty()
NoContent(s) == s = <<>>

\* content.find(|ch| !ch.is_whitespace()).is_none()
AllWhitespace(s) == \A k \in DOMAIN s : IsWhitespace(s[k])

\* The tail of emit: the listener, when one is registered, else tokens.push
Deliver(t, token) ==
    IF mode = "Speculative" THEN [t EXCEPT !.sink = Append(@, token)]
    ELSE [t EXCEPT !.tokens = Append(@, token)]

\* TokenStore::emit
Emit(t, event, i) ==
    LET content == t.cache0
        u == [t EXCEPT !.cache0 = <<>>, !.has_data = FALSE]
        span == [start |-> t.loc, end |-> Locus(i)]
    IN CASE event.type = "Text" ->
                IF AllWhitespace(content) THEN u
                ELSE IF span.end[2] = 0 THEN [u EXCEPT !.panic = TRUE]
                ELSE Deliver(u, [type |-> "Text", content |-> content,
                                 span |-> [span EXCEPT !.end = <<@[1], @[2] - 1>>]])
         [] event.type = "OpenerTag" ->
                Deliver([u EXCEPT !.attrib_store = <<>>],
                        [type |-> "OpeningTag", name |-> HtmlTagNew(content),
                         attributes |-> t.attrib_store, span |-> span,
                         self_closing |-> event.self_closing])
         [] event.type = "Close" ->
                Deliver(u, [type |-> "ClosingTag", name |-> HtmlTagNew(content),
                            span |-> span])
         [] event.type = "Comment" ->
                Deliver(u, [type |-> "Comment", content |-> content, span |-> span])
         [] event.type = "DocType" ->
                Deliver(u, [type |-> "DocType", name |-> event.name,
                            identifier |-> event.identifier,
                            force_quirks |-> event.force_quirks])

EvText == [type |-> "Text"]
EvClose == [type |-> "Close"]
EvComment == [type |-> "Comment"]
EvOpenerTag(self_closing) == [type |-> "OpenerTag", self_closing |-> self_closing]
EvDocType(name, identifier, force_quirks) ==
    [type |-> "DocType", name |-> name, identifier |-> identifier,
     force_quirks |-> force_quirks]

(***************************************************************************)
(* tokenize: one operator per State of the main loop.  Each returns the    *)
(* next State ("Break" when the loop is left), the iterator and the store. *)
(***************************************************************************)
R(s, i, t) == [state |-> s, it |-> i, ts |-> t]

UEOI == "UnexpectedEndOfInput"
UChar == "UnexpectedCharacter"
REPLACEMENT == "U+FFFD"

\* State::Data
StepData(i, t) ==
    LET got(r) ==
            LET then(flushed) ==
                    CASE r.ch = "<" -> R("OpeningTag", r.it, SetStart(flushed, r.it))
                      [] r.ch = NUL ->
                           R("Data", r.it, Error(flushed, "InvalidCharacter", None, r.it))
                      [] r.ch = None -> R("Break", r.it, flushed)
                      [] OTHER ->
                           R("Data", r.it,
                             StorePush(IF Empty(t) THEN SetStart(t, r.it) ELSE t, r.ch))
            IN then(IF ~Empty(t) /\ r.ch \in {"<", NUL, None}
                    THEN Emit(t, EvText, r.it) ELSE t)
    IN got(Next_(i))

\* State::OpeningTag, the arm Some('!'), after "<!-"
OpeningBangDash(r3, t) ==
    CASE r3.ch = "-" -> R("Comment", r3.it, t)
      [] r3.ch = None ->
           R("Break", r3.it,
             Error(Emit(StorePush(t, "-"), EvComment, r3.it), UEOI, None, r3.it))
      [] OTHER ->
           R("Comment", r3.it,
             Error(StorePush(StorePush(t, "-"), r3.ch), UChar, r3.ch, r3.it))

\* State::OpeningTag, the arm Some('!'), after "<!d" or "<!D"
OpeningBangD(ch, c, t) ==
    IF LowerStr(c.str) = <<"o","c","t","y","p","e">>
    THEN R("Doctype", c.it, t)
    ELSE R("Comment", c.it, Error(PushStr(StorePush(t, ch), c.str), UChar, ch, c.it))

\* State::OpeningTag, the arm Some('!')
OpeningBang(i, t) ==
    LET got(r2) ==
            CASE r2.ch = "-" -> OpeningBangDash(Next_(r2.it), t)
              [] r2.ch = None ->
                   R("Break", r2.it, Error(Emit(t, EvComment, r2.it), UEOI, None, r2.it))
              [] r2.ch \in {"d", "D"} ->
                   OpeningBangD(r2.ch, CollectNext(r2.it, 6, <<>>), t)
              [] OTHER ->
                   R("BogusComment", r2.it,
                     Error(StorePush(t, r2.ch), UChar, r2.ch, r2.it))
    IN IF ~Empty(t) THEN R("OpeningTag", i, StorePush(t, "!")) ELSE got(Next_(i))

\* State::OpeningTag, the arm Some('/')
OpeningSlash(i, t) ==
    LET got(r2) ==
            CASE r2.ch = ">" -> R("Data", r2.it, Emit(t, EvOpenerTag(TRUE), r2.it))
              [] r2.ch = None -> R("Data", r2.it, Error(Clear(t), UEOI, None, r2.it))
              [] OTHER ->
                   R("AttributeName", Push(r2.it, r2.ch), Error(t, UChar, r2.ch, r2.it))
    IN IF Empty(t) THEN R("ClosingTag", i, t)
       ELSE got(Next_(NextWhile(i, Whitespace)))

\* State::OpeningTag
StepOpeningTag(i, t) ==
    LET got(r) ==
            LET ch == r.ch
                back(j, u) == R("Data", j, Error(u, UChar, ch, j))
            IN CASE ch = "!" -> OpeningBang(r.it, t)
                 [] ch = "/" -> OpeningSlash(r.it, t)
                 [] ch = ">" ->
                      IF Empty(t) THEN back(Push(r.it, ">"), StorePush(t, "<"))
                      ELSE R("Data", r.it, Emit(t, EvOpenerTag(FALSE), r.it))
                 [] ch = None ->
                      R("Break", r.it,
                        Emit(StorePush(Error(t, UEOI, None, r.it), "<"), EvText, r.it))
                 [] ch \notin {"!", "/", ">", None} /\ (IsAlnum(ch) \/ ch = "-") ->
                      IF Empty(t) /\ (IsNumeric(ch) \/ ch = "-")
                      THEN R("Data", r.it,
                             StorePush(StorePush(Error(t, UChar, ch, r.it), "<"), ch))
                      ELSE R("OpeningTag", r.it, StorePush(t, ToLower(ch)))
                 [] ch \notin {"!", "/", ">", None} /\ ~(IsAlnum(ch) \/ ch = "-")
                      /\ IsWhitespace(ch) ->
                      IF Empty(t) THEN back(Push(r.it, ch), StorePush(t, "<"))
                      ELSE R("AttributeName", Push(r.it, ch), t)
                 [] OTHER ->
                      IF Empty(t) THEN back(Push(Push(r.it, "<"), ch), t)
                      ELSE R("OpeningTag", r.it, StorePush(t, ch))
    IN got(Next_(i))

NonWhitespace == Chars \ Whitespace

\* State::AttributeName, the loop `while !(ended || has_value)`
RECURSIVE AttrNameLoop(_, _)
AttrNameLoop(i, t) ==
    LET out(j, u, ended, has_value, s) ==
            [it |-> j, ts |-> u, ended |-> ended, has_value |-> has_value, state |-> s]
        skipped(r2) ==
            IF r2.ch = None THEN out(r2.it, t, TRUE, FALSE, "AttributeName")
            ELSE out(Push(r2.it, r2.ch), t, FALSE, FALSE, "AttributeName")
        got(r) ==
            CASE r.ch = None -> out(r.it, t, TRUE, FALSE, "AttributeName")
              [] r.ch # None /\ IsWhitespace(r.ch) ->
                   skipped(Next_(NextUntil(r.it, NonWhitespace)))
              [] r.ch = "=" -> out(r.it, t, FALSE, TRUE, "AttributeName")
              [] r.ch \in {">", "/"} -> out(Push(r.it, r.ch), t, FALSE, FALSE, "OpeningTag")
              [] OTHER -> AttrNameLoop(r.it, PushAttrName(t, r.ch))
    IN got(Next_(i))

\* State::AttributeName
StepAttributeName(i, t) ==
    LET after(l) ==
            IF l.has_value THEN R("AttributeValue", l.it, l.ts)
            ELSE IF l.ended THEN R("Break", l.it, Clear(Error(l.ts, UEOI, None, l.it)))
            ELSE R(l.state, l.it,
                   IF l.ts.cache1 # <<>> THEN CollectAttribute(l.ts, "None") ELSE l.ts)
    IN after(AttrNameLoop(i, t))

\* State::AttributeValue, the loop `while !ended`
RECURSIVE AttrValueLoop(_, _, _)
AttrValueLoop(i, t, quote_type) ==
    LET got(r) ==
            CASE r.ch = None -> [it |-> r.it, ts |-> t, ended |-> TRUE]
              [] r.ch = "'" /\ quote_type = "Single" ->
                   [it |-> r.it, ts |-> t, ended |-> FALSE]
              [] r.ch = "\"" /\ quote_type = "Double" ->
                   [it |-> r.it, ts |-> t, ended |-> FALSE]
              [] r.ch # None /\ IsWhitespace(r.ch) /\ quote_type = "None" ->
                   [it |-> r.it, ts |-> t, ended |-> FALSE]
              [] r.ch \in {">", "/"} /\ quote_type = "None" ->
                   [it |-> Push(r.it, r.ch), ts |-> t, ended |-> FALSE]
              [] OTHER -> AttrValueLoop(r.it, PushAttrValue(t, r.ch), quote_type)
    IN got(Next_(i))

\* State::AttributeValue
StepAttributeValue(i, t) ==
    LET after(l, quote_type) ==
            R("AttributeName", l.it,
              IF l.ended THEN Error(l.ts, UEOI, None, l.it)
              ELSE CollectAttribute(l.ts, quote_type))
        got(r) ==
            LET ch == r.ch
                quote_type == CASE ch = "'" -> "Single" [] ch = "\"" -> "Double"
                                [] OTHER -> "None"
            IN IF ch = None THEN R("Break", r.it, Error(t, UEOI, None, r.it))
               ELSE after(AttrValueLoop(
                              IF quote_type = "None" THEN Left(Push(r.it, ch)) ELSE r.it,
                              IF ch = "<" THEN Error(t, UChar, ch, r.it) ELSE t,
                              quote_type),
                          quote_type)
    IN got(Next_(i))

\* State::ClosingTag
StepClosingTag(i, t) ==
    LET got(r) ==
            LET ch == r.ch
                bogus(j, u) == R("BogusComment", j, u)
            IN CASE ch = None -> R("ClosingTag", r.it, Error(t, UEOI, None, r.it))
                 [] ch # None /\ IsWhitespace(ch) ->
                      IF Empty(t)
                      THEN R("Data", r.it, Error(t, "ExpectedTagName", None, r.it))
                      ELSE R("ClosingTag", r.it, t)
                 [] ch # None /\ ~IsWhitespace(ch) /\ (IsAlnum(ch) \/ ch = "-") ->
                      IF Empty(t) /\ IsNumeric(ch)
                      THEN bogus(Push(r.it, ch),
                                 SetStart(Error(t, UChar, ch, r.it), r.it))
                      ELSE R("ClosingTag", r.it, StorePush(t, ToLower(ch)))
                 [] ch = ">" ->
                      R("Data", r.it,
                        IF Empty(t) THEN Error(t, "ExpectedTagName", None, r.it)
                        ELSE Emit(t, EvClose, r.it))
                 [] OTHER ->
                      IF Empty(t) THEN bogus(Push(r.it, ch), Error(t, UChar, ch, r.it))
                      ELSE R("ClosingTag", r.it, StorePush(t, ch))
    IN got(Next_(i))

\* State::Comment, the inner loop: [it, ts, is_closed]
RECURSIVE CommentLoop(_, _)
CommentLoop(i, t) ==
    LET out(j, u, is_closed) == [it |-> j, ts |-> u, is_closed |-> is_closed]
        dashes(r3) ==
            CASE r3.ch = ">" -> out(r3.it, t, TRUE)
              [] r3.ch = None -> out(r3.it, PushStr(t, <<"-", "-">>), FALSE)
              [] OTHER -> CommentLoop(r3.it, StorePush(PushStr(t, <<"-", "-">>), r3.ch))
        dash(r2) ==
            CASE r2.ch = None -> out(r2.it, StorePush(t, "-"), FALSE)
              [] r2.ch = "-" -> dashes(Next_(r2.it))
              [] OTHER -> CommentLoop(r2.it, StorePush(StorePush(t, "-"), r2.ch))
        got(r) ==
            CASE r.ch = None -> out(r.it, t, FALSE)
              [] r.ch = "-" -> dash(Next_(r.it))
              [] OTHER -> CommentLoop(r.it, StorePush(t, r.ch))
    IN got(Next_(i))

\* State::Comment
StepComment(i, t) ==
    LET after(l) ==
            R("Data", l.it,
              Emit(IF ~l.is_closed THEN Error(l.ts, "UnclosedComment", None, l.it)
                   ELSE l.ts,
                   EvComment, l.it))
    IN after(CommentLoop(i, t))

\* State::BogusComment, the inner loop
RECURSIVE BogusLoop(_, _)
BogusLoop(i, t) ==
    LET got(r) == IF r.ch = ">" \/ r.ch = None THEN [it |-> r.it, ts |-> t]
                  ELSE BogusLoop(r.it, StorePush(t, r.ch))
    IN got(Next_(i))

\* State::BogusComment that emits its content as text
StepBogusCommentAsText(i, t) ==
    LET after(l) == R("Data", l.it, Emit(l.ts, EvText, l.it))
    IN after(BogusLoop(i, t))

\* State::BogusComment
StepBogusComment(i, t) ==
    LET after(l) == R("Data", l.it, Emit(l.ts, EvComment, l.it))
    IN after(BogusLoop(i, t))

\* State::Doctype, from the match on the character after the name to the end
DoctypeIdentifier(ended1, name, r2, t1) ==
    LET ch == r2.ch
        ident == IF ch \in {"p", "P", "s", "S"}
                 THEN CollectNext(r2.it, 5, <<ch>>)
                 ELSE [str |-> <<>>, it |-> r2.it]
        known == LowerStr(ident.str) \in {<<"s","y","s","t","e","m">>,
                                          <<"p","u","b","l","i","c">>}
        type == IF ch \in {"p", "P", "s", "S"} /\ known
                THEN Some(IF LowerStr(ident.str) = <<"s","y","s","t","e","m">>
                          THEN "System" ELSE "Public")
                ELSE NoneOpt
        end(j, u, fq) ==
            IF ended1 \/ ch = None THEN R("Break", j, Error(u, UEOI, None, j))
            ELSE R("Data", j, Emit(u, EvDocType(name, type, fq), j))
    IN CASE ch = ">" -> end(r2.it, Error(t1, UChar, ">", r2.it), TRUE)
         [] ch = NUL ->
              end(r2.it, StorePush(Error(t1, "InvalidCharacter", None, r2.it),
                                   REPLACEMENT), FALSE)
         [] ch \in {"p", "P", "s", "S"} ->
              IF known THEN end(ident.it, t1, FALSE)
              ELSE end(Find(ident.it, {">"}),
                       Error(t1, "IndecipherableDocType", None, ident.it), FALSE)
         [] ch = None -> end(r2.it, t1, FALSE)
         [] OTHER ->
              end(Find(r2.it, {">"}),
                  Error(t1, "IndecipherableDocType", None, r2.it), FALSE)

\* State::Doctype, the name and the whitespace after it
DoctypeName(ended1, c, t1) ==
    DoctypeIdentifier(ended1, c.str, Next_(NextWhile(c.it, Whitespace)), t1)

\* State::Doctype, the character expected to be whitespace
DoctypeStart(r, t) ==
    LET i1 == CASE r.ch = None -> r.it
                [] r.ch # None /\ IsWhitespace(r.ch) -> NextWhile(r.it, Whitespace)
                [] OTHER -> Push(r.it, r.ch)
        t1 == IF r.ch # None /\ ~IsWhitespace(r.ch)
              THEN Error(t, UChar, r.ch, Push(r.it, r.ch)) ELSE t
    IN DoctypeName(r.ch = None, CollectUntil(i1, Whitespace \cup {">"}, <<>>), t1)

\* State::Doctype
StepDoctype(i, t) == DoctypeStart(Next_(i), t)

(***************************************************************************)
(* Element, ElementRef and the Node operations.  The heap h maps each      *)
(* ElementRef (a positive index) to its Element; parent 0 is None.         *)
(***************************************************************************)
CLASS == <<"c","l","a","s","s">>
ID == <<"i","d">>
EmptyMap == <<>>
EmptySpan == [start |-> <<0, 0>>, end |-> <<0, 0>>]

\* HashMap::insert
MapInsert(m, k, v) == [x \in DOMAIN m \cup {k} |-> IF x = k THEN v ELSE m[x]]
\* HashMap::remove
MapRemove(m, k) == [x \in DOMAIN m \ {k} |-> m[x]]

\* Element::new
ElementNew(name) ==
    [name |-> name, class_list |-> <<>>, refs |-> 0, attributes |-> EmptyMap,
     location |-> [open_tag |-> EmptySpan, close_tag |-> NoneOpt],
     child_nodes |-> <<>>, parent |-> 0]

ElementNode(e) == [type |-> "Element", ref |-> e]
IsElement(node) == node.type = "Element"

\* ElementRef::from: the heap with the new element at index Len(h) + 1
ElementRefFrom(h, name) == Append(h, [ElementNew(name) EXCEPT !.refs = 1])

\* Element::init, the attribute loop (later keys overwrite earlier ones)
RECURSIVE InsertAll(_, _)
InsertAll(m, attributes) ==
    IF attributes = <<>> THEN m
    ELSE InsertAll(MapInsert(m, Head(attributes).key,
                             [data |-> Head(attributes).value,
                              quote_type |-> Head(attributes).quote_type]),
                   Tail(attributes))

\* ElementRef::get_attribute
GetAttribute(h, e, name) ==
    IF name \in DOMAIN h[e].attributes THEN h[e].attributes[name].data ELSE NoneOpt

\* str::split(' '): the pieces between single spaces, empty pieces included
RECURSIVE SplitSpace(_, _)
SplitSpace(s, piece) ==
    IF s = <<>> THEN <<piece>>
    ELSE IF Head(s) = " " THEN <<piece>> \o SplitSpace(Tail(s), <<>>)
    ELSE SplitSpace(Tail(s), Append(piece, Head(s)))

\* ElementRef::update_class_list
UpdateClassList(h, e) ==
    LET value == GetAttribute(h, e, CLASS)
    IN [h EXCEPT ![e].class_list =
            IF IsSome(value) THEN SplitSpace(Unwrap(value), <<>>) ELSE <<>>]

\* ElementRef::init
ElementRefInit(h, name, attributes, start_tag_span) ==
    UpdateClassList([ElementRefFrom(h, name) EXCEPT
                         ![Len(h) + 1].attributes = InsertAll(@, attributes),
                         ![Len(h) + 1].location.open_tag = start_tag_span],
                    Len(h) + 1)

\* ElementRef::get_end
GetEnd(h, e) ==
    IF IsSome(h[e].location.close_tag) THEN Unwrap(h[e].location.close_tag).end
    ELSE h[e].location.open_tag.end

\* ElementRef::set_attribute
SetAttribute(h, e, name, value) ==
    LET h1 == [h EXCEPT ![e].attributes =
                   MapInsert(@, name, [data |-> Some(value), quote_type |-> "Double"])]
    IN IF name = CLASS THEN UpdateClassList(h1, e) ELSE h1

\* ElementRef::remove_attribute
RemoveAttribute(h, e, qualified_name) ==
    [h EXCEPT ![e].attributes = MapRemove(@, qualified_name)]

\* [String]::join(" ")
RECURSIVE Join(_)
Join(list) ==
    IF list = <<>> THEN <<>>
    ELSE IF Len(list) = 1 THEN list[1]
    ELSE list[1] \o <<" ">> \o Join(Tail(list))

\* ElementRef::class_name
ClassName(h, e) == Join(h[e].class_list)

\* ElementRef::add_class
AddClass(h, e, class_name) ==
    LET h1 == [h EXCEPT ![e].class_list = Append(@, class_name)]
    IN [h1 EXCEPT ![e].attributes =
            MapInsert(@, CLASS,
                      [data |-> Some(ClassName(h1, e) \o <<" ">> \o class_name),
                       quote_type |-> "Double"])]

\* ElementRef::remove_class
RemoveClass(h, e, class_name) ==
    [h EXCEPT ![e].class_list = SelectSeq(@, LAMBDA class : class # class_name)]

\* Vec::insert(index, x), index counted from 0
VecInsert(v, index, x) == SubSeq(v, 1, index) \o <<x>> \o SubSeq(v, index + 1, Len(v))

\* How many nodes of a child list hold a handle of element n
Occurrences(nodes, n) ==
    Cardinality({k \in DOMAIN nodes : IsElement(nodes[k]) /\ nodes[k].ref = n})

\* Node::parent for ElementRef
Parent(h, e) == h[e].parent

\* Node::append for ElementRef
ElementAppend(h, self, child) ==
    LET h1 == [h EXCEPT ![child].parent = self]
        h2 == [h1 EXCEPT ![self].child_nodes = Append(@, ElementNode(child))]
    IN [h2 EXCEPT ![child].refs = @ + 1]

\* Node::prepend for ElementRef
ElementPrepend(h, self, child) ==
    LET h1 == [h EXCEPT ![child].parent = self]
        h2 == [h1 EXCEPT ![self].child_nodes = VecInsert(@, 0, ElementNode(child))]
    IN [h2 EXCEPT ![child].refs = @ + 1]

\* remove that drops the handles and leaves the parent of node as it was
ElementRemoveKeepsParent(h, self, node) ==
    LET dropped == Occurrences(h[self].child_nodes, node)
        h1 == [h EXCEPT ![self].child_nodes =
                   SelectSeq(@, LAMBDA n : ~(IsElement(n) /\ n.ref = node))]
    IN [h1 EXCEPT ![node].refs = @ - dropped]

\* Node::remove for ElementRef
ElementRemove(h, self, node) ==
    LET dropped == Occurrences(h[self].child_nodes, node)
        h1 == [h EXCEPT ![self].child_nodes =
                   SelectSeq(@, LAMBDA n : ~(IsElement(n) /\ n.ref = node))]
        h2 == [h1 EXCEPT ![node].refs = @ - dropped]
    IN [h2 EXCEPT ![node].parent = 0]

\* ElementRef::get_index_of: Some(index from 0) or None
GetIndexOf(h, self, child) ==
    LET nodes == h[self].child_nodes
        hits == {k \in DOMAIN nodes : IsElement(nodes[k]) /\ nodes[k].ref = child}
    IN IF hits = {} THEN NoneOpt
       ELSE Some((CHOOSE k \in hits : \A j \in hits : k <= j) - 1)

\* Node::after for ElementRef: [h, panic]
ElementAfter(h, self, node) ==
    IF Parent(h, self) = 0 THEN [h |-> h, panic |-> FALSE]
    ELSE LET value == Parent(h, self)
             index == GetIndexOf(h, value, self)
         IN IF ~IsSome(index) THEN [h |-> h, panic |-> TRUE]
            ELSE [h |-> [h EXCEPT ![value].child_nodes =
                                      VecInsert(@, Unwrap(index) + 1, ElementNode(node)),
                                  ![node].refs = @ + 1],
                  panic |-> FALSE]

\* Node::children for ElementRef: the element handles of the child list
Children(h, e) ==
    LET els == SelectSeq(h[e].child_nodes, IsElement)
    IN [k \in DOMAIN els |-> els[k].ref]

\* Node::has_children for ElementRef
HasChildren(h, e) == Len(h[e].child_nodes) > 0

(***************************************************************************)
(* Speculative builder: Parser::receive is the tokenizer's listener        *)
(***************************************************************************)
\* Parser::new
NewParser ==
    [tree |-> <<>>, current_element |-> 0, open_tags |-> 0, errors |-> <<>>,
     panic |-> FALSE, result |-> NoneOpt]

\* Drop for ElementRef (0 stands for no handle)
DropRef(h, e) == IF e = 0 THEN h ELSE [h EXCEPT ![e].refs = @ - 1]
\* ElementRef::over / Clone for ElementRef
CloneRef(h, e) == IF e = 0 THEN h ELSE [h EXCEPT ![e].refs = @ + 1]

\* parse_opening_tag that flags every self-closing tag
ParseOpeningTagFlagsVoid(p, h, token) ==
    LET is_void == IsVoid(token.name)
        new_element == Len(h) + 1
        linked(q, h2) ==
            IF ~token.self_closing /\ ~is_void
            THEN [parser |-> [q EXCEPT !.current_element = new_element,
                                       !.open_tags = @ + 1],
                  elems |-> DropRef(h2, p.current_element)]
            ELSE [parser |-> q, elems |-> DropRef(h2, new_element)]
        built(h1) ==
            linked([p EXCEPT
                       !.errors = IF token.self_closing
                                  THEN Append(@, Err("SelfClosingNonVoidTag", None,
                                                     GetEnd(h1, new_element)))
                                  ELSE @,
                       !.tree = IF p.current_element # 0 THEN @
                                ELSE Append(@, ElementNode(new_element))],
                   IF p.current_element # 0
                   THEN ElementAppend(h1, p.current_element, new_element)
                   ELSE CloneRef(h1, new_element))
    IN built(ElementRefInit(h, token.name, token.attributes, token.span))

\* Parser::parse_opening_tag: [parser, elems]
ParseOpeningTag(p, h, token) ==
    LET is_void == IsVoid(token.name)
        new_element == Len(h) + 1
        linked(q, h2) ==
            IF ~token.self_closing /\ ~is_void
            THEN [parser |-> [q EXCEPT !.current_element = new_element,
                                       !.open_tags = @ + 1],
                  elems |-> DropRef(h2, p.current_element)]
            ELSE [parser |-> q, elems |-> DropRef(h2, new_element)]
        built(h1) ==
            linked([p EXCEPT
                       !.errors = IF token.self_closing /\ ~is_void
                                  THEN Append(@, Err("SelfClosingNonVoidTag", None,
                                                     GetEnd(h1, new_element)))
                                  ELSE @,
                       !.tree = IF p.current_element # 0 THEN @
                                ELSE Append(@, ElementNode(new_element))],
                   IF p.current_element # 0
                   THEN ElementAppend(h1, p.current_element, new_element)
                   ELSE CloneRef(h1, new_element))
    IN built(ElementRefInit(h, token.name, token.attributes, token.span))

\* parse_closing_tag that goes up one level and leaves open_tags as it is
ParseClosingTagKeepsCount(p, h, token) ==
    LET cur == p.current_element
        stray == Err("UnexpectedCloseTag", token.name, token.span.start)
    IN IF cur = 0 THEN [parser |-> [p EXCEPT !.errors = Append(@, stray)], elems |-> h]
       ELSE IF token.name # h[cur].name
       THEN [parser |-> [p EXCEPT !.errors = Append(@, stray)], elems |-> h]
       ELSE [parser |-> [p EXCEPT !.current_element = Parent(h, cur)],
             elems |-> DropRef(CloneRef([h EXCEPT ![cur].location.close_tag =
                                                      Some(token.span)],
                                        Parent(h, cur)),
                               cur)]

\* parse_closing_tag that closes the current element whatever the tag
ParseClosingTagPopsAny(p, h, token) ==
    LET cur == p.current_element
        stray == Err("UnexpectedCloseTag", token.name, token.span.start)
    IN IF cur = 0 THEN [parser |-> [p EXCEPT !.errors = Append(@, stray)], elems |-> h]
       ELSE IF FALSE
       THEN [parser |-> [p EXCEPT !.errors = Append(@, stray)], elems |-> h]
       ELSE [parser |-> [p EXCEPT !.current_element = Parent(h, cur),
                                  !.open_tags = IF @ = 0 THEN 0 ELSE @ - 1,
                                  !.panic = @ \/ p.open_tags = 0],
             elems |-> DropRef(CloneRef([h EXCEPT ![cur].location.close_tag =
                                                      Some(token.span)],
                                        Parent(h, cur)),
                               cur)]

\* Parser::parse_closing_tag: [parser, elems]
ParseClosingTag(p, h, token) ==
    LET cur == p.current_element
        stray == Err("UnexpectedCloseTag", token.name, token.span.start)
    IN IF cur = 0 THEN [parser |-> [p EXCEPT !.errors = Append(@, stray)], elems |-> h]
       ELSE IF token.name # h[cur].name
       THEN [parser |-> [p EXCEPT !.errors = Append(@, stray)], elems |-> h]
       ELSE [parser |-> [p EXCEPT !.current_element = Parent(h, cur),
                                  !.open_tags = IF @ = 0 THEN 0 ELSE @ - 1,
                                  !.panic = @ \/ p.open_tags = 0],
             elems |-> DropRef(CloneRef([h EXCEPT ![cur].location.close_tag =
                                                      Some(token.span)],
                                        Parent(h, cur)),
                               cur)]

\* parse_text and parse_comment that put every node at the root
ParseLeafAtRoot(p, h, node) ==
    [parser |-> [p EXCEPT !.tree = Append(@, node)], elems |-> h]

\* Parser::parse_text and Parser::parse_comment: [parser, elems]
ParseLeaf(p, h, node) ==
    IF p.current_element # 0
    THEN [parser |-> p,
          elems |-> [h EXCEPT ![p.current_element].child_nodes = Append(@, node)]]
    ELSE [parser |-> [p EXCEPT !.tree = Append(@, node)], elems |-> h]

\* Parser::receive: [parser, elems, response]
Receive(p, h, token) ==
    LET with(r, response) ==
            [parser |-> r.parser, elems |-> r.elems, response |-> response]
        same == [parser |-> p, elems |-> h]
    IN CASE token.type = "OpeningTag" ->
              IF token.name = TagScript THEN with(same, "SwitchToScript")
              ELSE IF token.name = TagStyle THEN with(same, "SwitchToStyleSheet")
              ELSE with(ParseOpeningTag(p, h, token), "Continue")
         [] token.type = "ClosingTag" -> with(ParseClosingTag(p, h, token), "Continue")
         [] token.type \in {"Text", "Comment"} ->
              with(ParseLeaf(p, h, [type |-> token.type, content |-> token.content,
                                    span |-> token.span]), "Continue")
         [] token.type = "DocType" ->
              with([parser |-> [p EXCEPT !.tree =
                                    Append(@, [type |-> "DocType", name |-> token.name,
                                               identifier |-> token.identifier,
                                               force_quirks |-> token.force_quirks])],
                    elems |-> h], "Continue")
         [] OTHER -> with([parser |-> [p EXCEPT !.panic = TRUE], elems |-> h], "Continue")

\* finish that never looks for an open element
FinishUnchecked(p, h, tokenizer_errors) ==
    [p EXCEPT !.errors = <<>>, !.tree = <<>>,
              !.result = Some([tree |-> p.tree, errors |-> tokenizer_errors \o p.errors])]

\* Parser::finish: the parser with its result, or with panic set by the unwrap
Finish(p, h, tokenizer_errors) ==
    IF p.open_tags # 0 /\ p.current_element = 0 THEN [p EXCEPT !.panic = TRUE]
    ELSE [p EXCEPT !.errors = <<>>, !.tree = <<>>,
                   !.result =
                       Some([tree |-> p.tree,
                             errors |->
                                 tokenizer_errors \o
                                 (IF p.open_tags # 0
                                  THEN Append(p.errors,
                                              Err("UnclosedTag", h[p.current_element].name,
                                                  GetEnd(h, p.current_element)))
                                  ELSE p.errors)])]

(***************************************************************************)
(* Synchronous builder: SyncHtmlParser over the finished token vector.     *)
(* stack holds the elements whose parse_children call is running.          *)
(***************************************************************************)
NewSync ==
    [tokens |-> <<>>, index |-> 0, rev_separator |-> 0, errors |-> <<>>,
     nodes |-> <<>>, stack |-> <<>>, panic |-> FALSE, result |-> NoneOpt]

\* SyncHtmlParser::parse, up to the loop
SyncParserNew(tokens, errors) ==
    [NewSync EXCEPT !.tokens = tokens, !.rev_separator = Len(tokens) \div 2,
                    !.errors = errors]

\* Vec::swap_remove(index), index counted from 0: [item, vec]
SwapRemove(v, index) ==
    [item |-> v[index + 1],
     vec |-> IF index + 1 = Len(v) THEN SubSeq(v, 1, Len(v) - 1)
             ELSE [k \in 1..(Len(v) - 1) |-> IF k = index + 1 THEN v[Len(v)] ELSE v[k]]]

\* next that always removes at index
SyncNextFront(s) ==
    LET taken(r) == [token |-> Some(r.item),
                     sync |-> [s EXCEPT !.index = @ + 1, !.tokens = r.vec]]
    IN IF Len(s.tokens) = 0 THEN [token |-> NoneOpt, sync |-> s]
       ELSE IF s.index >= Len(s.tokens)
       THEN [token |-> NoneOpt, sync |-> [s EXCEPT !.panic = TRUE]]
       ELSE taken(SwapRemove(s.tokens, s.index))

\* Iterator::next for SyncHtmlParser: [token, sync]; token NoneOpt at the end
SyncNext(s) ==
    LET len == Len(s.tokens)
        front == len > s.rev_separator
        at == IF front THEN s.index ELSE s.rev_separator - 1
        taken(r) ==
            [token |-> Some(r.item),
             sync |-> IF front THEN [s EXCEPT !.index = @ + 1, !.tokens = r.vec]
                      ELSE [s EXCEPT !.rev_separator = @ - 1, !.tokens = r.vec]]
    IN IF len = 0 THEN [token |-> NoneOpt, sync |-> s]
       ELSE IF at < 0 \/ at >= len
       THEN [token |-> NoneOpt, sync |-> [s EXCEPT !.panic = TRUE]]
       ELSE taken(SwapRemove(s.tokens, at))

\* The caller of parse_node pushes the node: the running parse_children's
\* element, or the document's nodes in SyncHtmlParser::parse
PushNode(s, h, node) ==
    IF s.stack = <<>> THEN [sync |-> [s EXCEPT !.nodes = Append(@, node)], elems |-> h]
    ELSE [sync |-> s,
          elems |-> [h EXCEPT ![s.stack[Len(s.stack)]].child_nodes = Append(@, node)]]

\* parse_children breaks: create_element returns the element to parse_node's caller
Return(s, h) ==
    PushNode([s EXCEPT !.stack = SubSeq(@, 1, Len(@) - 1)], h,
             ElementNode(s.stack[Len(s.stack)]))

\* create_element that parses the children of a void element
CreateElementDescends(s, h, token) ==
    LET is_void == IsVoid(token.name)
        element == Len(h) + 1
        built(s1, h1) ==
            IF ~token.self_closing
            THEN [sync |-> [s1 EXCEPT !.stack = Append(@, element)], elems |-> h1]
            ELSE PushNode(s1, h1, ElementNode(element))
        init(h1) ==
            built(IF token.self_closing /\ ~is_void
                  THEN [s EXCEPT !.errors =
                            Append(@, Err("SelfClosingNonVoidTag", None,
                                          GetEnd(h1, element)))]
                  ELSE s,
                  h1)
    IN init(ElementRefInit(h, token.name, token.attributes, token.span))

\* SyncHtmlParser::create_element: [sync, elems]
CreateElement(s, h, token) ==
    LET is_void == IsVoid(token.name)
        element == Len(h) + 1
        built(s1, h1) ==
            IF ~(token.self_closing \/ is_void)
            THEN [sync |-> [s1 EXCEPT !.stack = Append(@, element)], elems |-> h1]
            ELSE PushNode(s1, h1, ElementNode(element))
        init(h1) ==
            built(IF token.self_closing /\ ~is_void
                  THEN [s EXCEPT !.errors =
                            Append(@, Err("SelfClosingNonVoidTag", None,
                                          GetEnd(h1, element)))]
                  ELSE s,
                  h1)
    IN init(ElementRefInit(h, token.name, token.attributes, token.span))

\* SyncHtmlParser::parse_node: [sync, elems]
ParseNode(s, h, token) ==
    CASE token.type = "OpeningTag" -> CreateElement(s, h, token)
      [] token.type \in {"Text", "Comment"} ->
           PushNode(s, h, [type |-> token.type, content |-> token.content,
                           span |-> token.span])
      [] token.type = "ClosingTag" ->
           [sync |-> [s EXCEPT !.errors =
                          Append(@, Err("UnexpectedCloseTag", token.name,
                                        token.span.start))],
            elems |-> h]
      [] OTHER -> [sync |-> [s EXCEPT !.panic = TRUE], elems |-> h]

\* One token of the loop in SyncHtmlParser::parse
ParseLoop(n, h) ==
    IF ~IsSome(n.token)
    THEN [sync |-> [n.sync EXCEPT !.errors = <<>>,
                                  !.result = Some([tree |-> n.sync.nodes,
                                                   errors |-> n.sync.errors])],
          elems |-> h]
    ELSE IF Unwrap(n.token).type = "EOF" THEN [sync |-> n.sync, elems |-> h]
    ELSE ParseNode(n.sync, h, Unwrap(n.token))

\* One token of the loop in SyncHtmlParser::parse_children
ParseChildren(n, h, parent_element) ==
    IF ~IsSome(n.token) THEN [sync |-> [n.sync EXCEPT !.panic = TRUE], elems |-> h]
    ELSE IF Unwrap(n.token).type = "EOF"
    THEN Return([n.sync EXCEPT !.errors =
                     Append(@, Err("UnclosedTag", h[parent_element].name,
                                   Unwrap(n.token).location))], h)
    ELSE IF Unwrap(n.token).type = "ClosingTag"
            /\ Unwrap(n.token).name = h[parent_element].name
    THEN Return(n.sync, [h EXCEPT ![parent_element].location.close_tag =
                                      Some(Unwrap(n.token).span)])
    ELSE ParseNode(n.sync, h, Unwrap(n.token))

\* The token loop that is running: parse (stack empty) or parse_children
SyncToken(s, h) ==
    LET got(n) ==
            IF n.sync.panic THEN [sync |-> n.sync, elems |-> h]
            ELSE IF s.stack = <<>> THEN ParseLoop(n, h)
            ELSE ParseChildren(n, h, s.stack[Len(s.stack)])
    IN got(SyncNext(s))

(***************************************************************************)
(* Inputs                                                                  *)
(***************************************************************************)
MaxLen == 3
MaxErrors == 6

TokAlphabet == {"<", ">", "/", "a", "1", " ", "!", "-", "=", "$"}

\* Every string of at most MaxLen characters over the alphabet
ShortInputs == UNION {[1..n -> TokAlphabet] : n \in 0..MaxLen}

\* Longer documents: attributes, comments, doctypes, void and script tags,
\* nested and unclosed elements, several rows
LongInputs == {
    <<"<","p"," ","k","=","v",">","h","i","<","/","p",">">>,
    <<"<","i","n","p","u","t"," ","/",">">>,
    <<"<","b","u","t","t","o","n"," ","d","i","s","a","b","l","e","d","/",">">>,
    <<"<","1","2","3",">","<","/","1","2","3",">">>,
    <<"<","!","-","-"," ","c"," ","-","-",">">>,
    <<"<","!","D","O","C","T","Y","P","E"," ","h","t","m","l",">">>,
    <<"<","!","d","o","c","t","y","p","e"," ","h","t","m","l",">","<","p",">","x","<","/","p",">">>,
    <<"<","p",">","<","!","D","O","C","T","Y","P","E"," ","h","t","m","l",">","<","/","p",">">>,
    <<"<","s","c","r","i","p","t",">">>,
    <<"<","s","t","y","l","e",">","x","<","/","s","t","y","l","e",">">>,
    <<"<","a",">","<","b",">">>,
    <<"<","a",">","<","b",">","<","/","b",">">>,
    <<"<","a",">","<","b",">","<","/","a",">">>,
    <<"<","a",">","<","b",">","<","c",">">>,
    <<"<","/","b","r",">">>,
    <<"<","a",">","<","b","/",">","x","<","/","a",">">>,
    <<"<","p",">","<","b","r",">","x","<","/","p",">">>,
    <<"<","a"," ","b","=","'","c","'"," ","d","=","\"","e","\""," ","f","=","g"," ","h",">">>,
    <<"x","\n","<","a","\n","b","=","c",">","\n","y">>,
    <<"<","a"," ","b","=","c"," ","d","=","e",">","\n">>,
    <<"<","!","D","O","C","T","Y","P","E"," ","h","t","m","l"," ","S","Y","S","T","E","M",">">>,
    <<"<","!","D","O","C","T","Y","P","E"," ","h","t","m","l"," ","P","U","B","L","I","C",">">>,
    <<"<","!","D","O","C","T","Y","P","E",">">>,
    <<"<","!","D","O","C","T","Y","P","E","h","t","m","l",">">>,
    <<"<","!","D","O","C","T","Y","P","E"," ","h","t","m","l"," ","x",">">>,
    <<"<","!","D","O","C","T","Y","P","E"," ",NUL,">">>,
    <<"<","!","-"," ","x">>,
    <<"<","!","x",">">>,
    <<"<","a"," ","b","=","<","c",">">>,
    <<"a",NUL,"b">>,
    <<"<","d",">","<","i","n","p","u","t","/",">","<","d",">","<","s",">","<","/","s",">","<","/","d",">","<","/","d",">">>,
    <<"<","!","-","-","a","-","-","b","-","-",">">>,
    <<"<","a"," ","b"," ","="," ","c",">">>,
    <<"<","a"," ","/"," ","b",">">>,
    <<"<","!","d","x">>,
    <<"<","a"," ","b","=","'","c">>,
    <<"<","a"," ","b","=","\n">>,
    <<"<","!","-","-","a","-","-","-",">">>,
    <<"<","!","-","-","a","-","-",">","b","-","-",">">>,
    <<"<","!","-","-","-","-",">","x">>}

\* The four ways an attribute is written, as the attribute a token holds
AttributeForms(key, value) ==
    {[key |-> key, value |-> NoneOpt, quote_type |-> "None"],
     [key |-> key, value |-> Some(value), quote_type |-> "None"],
     [key |-> key, value |-> Some(value), quote_type |-> "Single"],
     [key |-> key, value |-> Some(value), quote_type |-> "Double"]}

\* One attribute, or two with different keys
AttributeLists ==
    {<<x>> : x \in AttributeForms(<<"b">>, <<"c">>)}
        \cup {<<x, y>> : x \in AttributeForms(<<"b">>, <<"c">>),
                         y \in AttributeForms(<<"d">>, <<"e">>)}

\* The source text of an attribute
AttributeText(x) ==
    CASE x.value = NoneOpt -> x.key
      [] x.quote_type = "Single" -> x.key \o <<"=", "'">> \o Unwrap(x.value) \o <<"'">>
      [] x.quote_type = "Double" -> x.key \o <<"=", "\"">> \o Unwrap(x.value) \o <<"\"">>
      [] OTHER -> x.key \o <<"=">> \o Unwrap(x.value)

\* The tag <a ...> with the attributes, a space before each
RECURSIVE AttributesText(_)
AttributesText(list) ==
    IF list = <<>> THEN <<>>
    ELSE <<" ">> \o AttributeText(Head(list)) \o AttributesText(Tail(list))

TagWith(list) == <<"<", "a">> \o AttributesText(list) \o <<">">>

AttributeInputs == {TagWith(list) : list \in AttributeLists}

Inputs == ShortInputs \cup LongInputs \cup AttributeInputs

(***************************************************************************)
(* Specifications of tokenize and parse_html_input                         *)
(***************************************************************************)
SelIdle == [state |-> "Idle"]
DomIdle == [op |-> "Idle"]
QueryIdle == [op |-> "Idle"]

ParseInit(modes) ==
    /\ input \in Inputs
    /\ mode \in modes
    /\ state = "Data"
    /\ it = NewIterator
    /\ ts = NewTokenStore
    /\ parser = NewParser
    /\ sync = NewSync
    /\ elems = <<>>
    /\ sel = SelIdle
    /\ dom = DomIdle
    /\ query = QueryIdle


\* The listener called on each token emit handed over: [parser, elems, abort]
RECURSIVE ReceiveAll(_, _, _)
ReceiveAll(p, h, tokens) ==
    LET got(r) ==
            IF r.response # "Continue" \/ r.parser.panic
            THEN [parser |-> r.parser, elems |-> r.elems, abort |-> TRUE]
            ELSE ReceiveAll(r.parser, r.elems, Tail(tokens))
    IN IF tokens = <<>> THEN [parser |-> p, elems |-> h, abort |-> FALSE]
       ELSE got(Receive(p, h, Head(tokens)))

\* One iteration of the loop of tokenize; leaving the loop pushes the EOF token
Commit(r) ==
    LET done(got, abort) ==
            /\ state' = IF abort THEN "Abort"
                        ELSE IF r.state = "Break"
                        THEN (IF mode = "Tokenize" THEN "Done" ELSE "Tokenized")
                        ELSE r.state
            /\ it' = r.it
            /\ ts' = [r.ts EXCEPT
                         !.sink = <<>>,
                         !.tokens = IF r.state = "Break" /\ ~abort
                                    THEN Append(@, [type |-> "EOF",
                                                    location |-> Locus(r.it)])
                                    ELSE @]
            /\ parser' = got.parser
            /\ elems' = got.elems
            /\ UNCHANGED <<input, mode, sync, sel, dom, query>>
        heard(got) == done(got, r.it.panic \/ r.ts.panic \/ got.abort)
    IN heard(ReceiveAll(parser, elems, r.ts.sink))

Running(s) == state = s /\ Len(ts.errors) < MaxErrors

TokData == Running("Data") /\ Commit(StepData(it, ts))
TokOpeningTag == Running("OpeningTag") /\ Commit(StepOpeningTag(it, ts))
TokAttributeName == Running("AttributeName") /\ Commit(StepAttributeName(it, ts))
TokAttributeValue == Running("AttributeValue") /\ Commit(StepAttributeValue(it, ts))
TokClosingTag == Running("ClosingTag") /\ Commit(StepClosingTag(it, ts))
TokComment == Running("Comment") /\ Commit(StepComment(it, ts))
TokBogusComment == Running("BogusComment") /\ Commit(StepBogusComment(it, ts))
TokDoctype == Running("Doctype") /\ Commit(StepDoctype(it, ts))

TokNext ==
    \/ TokData
    \/ TokOpeningTag
    \/ TokAttributeName
    \/ TokAttributeValue
    \/ TokClosingTag
    \/ TokComment
    \/ TokBogusComment
    \/ TokDoctype

\* SpeculativeHtmlParser::parse after tokenize returns
SpecFinish ==
    /\ state = "Tokenized"
    /\ mode = "Speculative"
    /\ parser' = Finish(parser, elems, ts.errors)
    /\ state' = IF parser'.panic THEN "Abort" ELSE "Done"
    /\ ts' = [ts EXCEPT !.errors = <<>>]
    /\ elems' = DropRef(elems, parser.current_element)
    /\ UNCHANGED <<input, mode, it, sync, sel, dom, query>>

\* SyncHtmlParser::parse after tokenize returns: the parser is built
SyncStart ==
    /\ state = "Tokenized"
    /\ mode = "Synchronous"
    /\ sync' = SyncParserNew(ts.tokens, ts.errors)
    /\ ts' = [ts EXCEPT !.tokens = <<>>, !.errors = <<>>]
    /\ state' = "Building"
    /\ UNCHANGED <<input, mode, it, parser, elems, sel, dom, query>>

\* SyncHtmlParser::parse / parse_children consume one token
SyncStep ==
    /\ state = "Building"
    /\ sync' = SyncToken(sync, elems).sync
    /\ elems' = SyncToken(sync, elems).elems
    /\ state' = IF sync'.panic THEN "Abort"
                ELSE IF IsSome(sync'.result) THEN "Done" ELSE "Building"
    /\ UNCHANGED <<input, mode, it, ts, parser, sel, dom, query>>

ParseNext == TokNext \/ SpecFinish \/ SyncStart \/ SyncStep

\* tokenize alone, as the tokenizer tests call it
TokInit == ParseInit({"Tokenize"})
SpecTok == TokInit /\ [][TokNext]_vars
\* the loop of tokenize keeps running until it breaks
FairTok == SpecTok /\ WF_vars(TokNext)

\* parse_html_input in either mode
SpecParse == ParseInit({"Synchronous", "Speculative"}) /\ [][ParseNext]_vars

(***************************************************************************)
(* Selectors: SelectorStore, parse_selector and Selector::compare.         *)
(* A Selector is [patterns]; a pattern is a record tagged by kind.         *)
(***************************************************************************)
\* Selector::new
NewSelector == [patterns |-> <<>>]

\* SelectorStore::new
NewSelectorStore ==
    [selectors |-> <<NewSelector>>, has_data |-> FALSE, cache0 |-> <<>>,
     cache1 |-> <<>>, panic |-> FALSE]

\* SelectorStore::host
Host(store) == store.selectors[1]

\* SelectorStore::collect
Collect(store, ch) == [store EXCEPT !.has_data = TRUE, !.cache0 = Append(@, ch)]
\* SelectorStore::collect_2
Collect2(store, ch) == [store EXCEPT !.has_data = TRUE, !.cache1 = Append(@, ch)]

\* Vec::contains for the Id pattern of SelectorStore::emit
ContainsId(patterns, data) ==
    \E k \in DOMAIN patterns : patterns[k].kind = "Id" /\ patterns[k].id = data

\* SelectorStore::emit, the pattern built from the cache
EmitPattern(store, event) ==
    CASE event = "Tag" -> [kind |-> "Tag", tag |-> HtmlTagNew(store.cache0)]
      [] event = "Id" -> [kind |-> "Id", id |-> store.cache0]
      [] event = "Class" -> [kind |-> "Class", name |-> store.cache0]
      [] event = "Universal" -> [kind |-> "Universal"]
      [] event = "Attribute" ->
           [kind |-> "Attribute", key |-> store.cache0,
            value |-> IF store.cache1 = <<>> THEN NoneOpt ELSE Some(store.cache1)]

\* SelectorStore::emit, the push into the host, its group or its descendant
EmitPush(store, pattern) ==
    LET patterns == Host(store).patterns
    IN IF patterns # <<>> /\ patterns[1].kind = "Group"
       THEN [store EXCEPT
                !.selectors[1].patterns[1].group[Len(patterns[1].group)].patterns =
                    Append(@, pattern)]
       ELSE IF patterns # <<>> /\ patterns[1].kind = "Descendant"
       THEN [store EXCEPT !.selectors[1].patterns[1].relation[2].patterns =
                              Append(@, pattern)]
       ELSE [store EXCEPT !.selectors[1].patterns = Append(@, pattern)]

\* SelectorStore::emit: [store, err], err NoneOpt for Ok(())
SelEmit(store, event) ==
    IF ~store.has_data THEN [store |-> store, err |-> Some("InvalidSelector")]
    ELSE IF event = "Id" /\ ContainsId(Host(store).patterns, store.cache0)
    THEN [store |-> [store EXCEPT !.cache0 = <<>>], err |-> Some("MultipleIds")]
    ELSE [store |-> EmitPush([store EXCEPT
                                 !.cache0 = <<>>,
                                 !.cache1 = IF event = "Attribute" THEN <<>> ELSE @,
                                 !.has_data = FALSE],
                             EmitPattern(store, event)),
          err |-> NoneOpt]

\* SelectorStore::shift, the selector that relates `first` to a new selector
Related(relation, first) ==
    [patterns |-> <<[kind |-> relation, relation |-> <<first, NewSelector>>]>>]

\* SelectorStore::shift
Shift(store, relation) ==
    LET last == store.selectors[Len(store.selectors)]
        rest == SubSeq(store.selectors, 1, Len(store.selectors) - 1)
        group == last.patterns[1].group
        regroup(g) == [store EXCEPT !.selectors =
                           Append(rest, [last EXCEPT !.patterns[1].group = g])]
        rehost(pattern) ==
            [store EXCEPT !.selectors =
                 [Append(rest, NewSelector) EXCEPT ![1].patterns = Append(@, pattern)]]
    IN IF last.patterns # <<>> /\ last.patterns[1].kind = "Group"
       THEN CASE relation \in {"Descendant", "Child"} ->
                   regroup(Append(SubSeq(group, 1, Len(group) - 1),
                                  Related(relation, group[Len(group)])))
              [] relation = "Group" -> regroup(Append(group, NewSelector))
              [] OTHER -> [store EXCEPT !.panic = TRUE]
       ELSE CASE relation \in {"Descendant", "Child"} ->
                   rehost(Related(relation, last).patterns[1])
              [] relation = "Group" ->
                   rehost([kind |-> "Group", group |-> <<last, NewSelector>>])
              [] OTHER -> [store EXCEPT !.panic = TRUE]

\* QueueIterator::new(selector.chars())
NewChars(selector) == [front |-> <<>>, rest |-> selector]

\* QueueIterator::next over Chars
CharsNext(q) ==
    IF q.front # <<>> THEN [ch |-> Head(q.front), it |-> [q EXCEPT !.front = Tail(@)]]
    ELSE IF q.rest # <<>> THEN [ch |-> Head(q.rest), it |-> [q EXCEPT !.rest = Tail(@)]]
    ELSE [ch |-> None, it |-> q]

\* QueueIterator::push over Chars
CharsPush(q, ch) == [q EXCEPT !.front = Append(@, ch)]

\* QueueIterator::next_while over Chars
RECURSIVE CharsNextWhile(_, _)
CharsNextWhile(q, S) ==
    LET got(r) == IF r.ch = None THEN r.it
                  ELSE IF r.ch \notin S THEN CharsPush(r.it, r.ch)
                  ELSE CharsNextWhile(r.it, S)
    IN got(CharsNext(q))

\* '[' | '.' | ':' | '#' | ','
Delimiters == {"[", ".", ":", "#", ","}
\* 'A'..='Z' | 'a'..='z' | '_' | '-'
NameStart == Lower \cup Upper \cup {"_", "-"}

\* parse_selector: the locals before the loop
NewSel(selector) ==
    [selector |-> selector, chars |-> NewChars(selector), store |-> NewSelectorStore,
     state |-> "Start", quote_type |-> "None", error |-> NoneOpt]

\* `Err(e)?`
Fail(x, q, e) == [x EXCEPT !.chars = q, !.state = "Err", !.error = Some(e)]
\* `state = s`, with what the arm did to chars
Go(x, q, s) == [x EXCEPT !.chars = q, !.state = s]
\* `store.collect(ch)`
Collected(x, q, ch) == [x EXCEPT !.chars = q, !.store = Collect(@, ch)]
\* `store.emit(event)?; state = s`
Emitted(x, q, event, s) ==
    LET got(r) ==
            IF IsSome(r.err)
            THEN [x EXCEPT !.chars = q, !.store = r.store, !.state = "Err",
                           !.error = r.err]
            ELSE [x EXCEPT !.chars = q, !.store = r.store, !.state = s]
    IN got(SelEmit(x.store, event))
\* `store.shift(relation); state = s`
Shifted(x, q, relation, s) ==
    [x EXCEPT !.chars = q, !.store = Shift(@, relation), !.state = s]

\* State::Start
SelStepStart(x) ==
    LET got(r) ==
            CASE r.ch = None -> Fail(x, r.it, "EmptySelector")
              [] r.ch \in Whitespace -> Go(x, r.it, "Start")
              [] r.ch = "." -> Go(x, r.it, "Class")
              [] r.ch = "*" -> Go(x, r.it, "Universal")
              [] r.ch = "#" -> Go(x, r.it, "Id")
              [] r.ch = "[" -> Go(x, r.it, "AttributeName")
              [] r.ch \in NameStart -> Go(Collected(x, r.it, r.ch), r.it, "TagName")
              [] r.ch \in Digits -> Fail(x, r.it, "InvalidTag")
              [] OTHER -> Fail(x, r.it, "InvalidSelector")
    IN got(CharsNext(x.chars))

\* State::Class and State::Id, which differ in the event they emit
SelStepNamed(x, event) ==
    LET got(r) ==
            CASE r.ch = None -> Emitted(x, r.it, event, "Ok")
              [] r.ch \in Whitespace -> Emitted(x, r.it, event, "PossibleNext")
              [] r.ch \in Delimiters -> Emitted(x, CharsPush(r.it, r.ch), event, "Start")
              [] OTHER -> Collected(x, r.it, r.ch)
    IN got(CharsNext(x.chars))

\* State::Class
SelStepClass(x) == SelStepNamed(x, "Class")

\* State::Id
SelStepId(x) == SelStepNamed(x, "Id")

\* State::Universal
SelStepUniversal(x) ==
    LET got(y, r) ==
            CASE r.ch = None -> Go(y, r.it, "Ok")
              [] r.ch \in Whitespace -> Go(y, r.it, "PossibleNext")
              [] r.ch \in Delimiters -> Go(y, CharsPush(r.it, r.ch), "Start")
              [] r.ch \in {">", "+", "~"} -> Go(y, CharsPush(r.it, r.ch), "PossibleNext")
              [] OTHER -> Fail(y, r.it, "InvalidSelector")
        emitted(y) == IF y.state = "Err" THEN y ELSE got(y, CharsNext(y.chars))
    IN emitted(Emitted([x EXCEPT !.store.has_data = TRUE], x.chars, "Universal",
                       "Universal"))

\* State::AttributeName
SelStepAttributeName(x) ==
    LET got(r) ==
            CASE r.ch = None \/ r.ch \in Whitespace \cup Delimiters ->
                   Fail(x, r.it, "InvalidSelector")
              [] r.ch = "=" -> Go(x, r.it, "AttributeValue")
              [] r.ch = "]" -> Emitted(x, r.it, "Attribute", "PossibleEnd")
              [] OTHER -> Collected(x, r.it, r.ch)
    IN got(CharsNext(x.chars))

\* State::AttributeValue, up to the inner loop: the quote type
SelStepAttributeValue(x) ==
    LET got(r) ==
            CASE r.ch = None \/ r.ch = "<" -> Fail(x, r.it, "InvalidSelector")
              [] r.ch = "'" ->
                   [Go(x, r.it, "AttributeValueLoop") EXCEPT !.quote_type = "Single"]
              [] r.ch = "\"" ->
                   [Go(x, r.it, "AttributeValueLoop") EXCEPT !.quote_type = "Double"]
              [] OTHER ->
                   [Go(x, CharsPush(r.it, r.ch), "AttributeValueLoop")
                       EXCEPT !.quote_type = "None"]
    IN got(CharsNext(x.chars))

\* State::AttributeValue, after the inner loop breaks
SelAttributeValueEnd(x, q) ==
    LET got(r) == IF r.ch = "]" THEN Emitted(x, r.it, "Attribute", "PossibleEnd")
                  ELSE Fail(x, r.it, "InvalidSelector")
    IN got(CharsNext(CharsNextWhile(q, Whitespace)))

\* State::AttributeValue, one iteration of the inner loop
SelStepAttributeValueLoop(x) ==
    LET got(r) ==
            CASE r.ch = None -> Fail(x, r.it, "InvalidSelector")
              [] (x.quote_type = "Single" /\ r.ch = "'")
                 \/ (x.quote_type = "Double" /\ r.ch = "\"") ->
                   SelAttributeValueEnd(x, r.it)
              [] r.ch # None /\ x.quote_type = "None" /\ r.ch = "]" ->
                   [x EXCEPT !.chars = CharsPush(r.it, r.ch),
                             !.store = Collect2(@, r.ch)]
              [] r.ch # None /\ x.quote_type = "None"
                 /\ r.ch \in {">", "/"} \cup Whitespace ->
                   Fail(x, r.it, "InvalidSelector")
              [] OTHER -> [x EXCEPT !.chars = r.it, !.store = Collect2(@, r.ch)]
    IN got(CharsNext(x.chars))

\* State::TagName
SelStepTagName(x) ==
    LET got(r) ==
            CASE r.ch = None -> Emitted(x, r.it, "Tag", "Ok")
              [] r.ch \in Whitespace -> Emitted(x, r.it, "Tag", "PossibleNext")
              [] r.ch \in Delimiters -> Emitted(x, CharsPush(r.it, r.ch), "Tag", "Start")
              [] r.ch \in NameStart \cup Digits -> Collected(x, r.it, r.ch)
              [] OTHER -> Fail(x, r.it, "InvalidSelector")
    IN got(CharsNext(x.chars))

\* State::PossibleEnd
SelStepPossibleEnd(x) ==
    LET got(r) ==
            CASE r.ch = None -> Go(x, r.it, "Ok")
              [] r.ch \in Delimiters -> Go(x, CharsPush(r.it, r.ch), "Start")
              [] r.ch \in Whitespace -> Go(x, CharsPush(r.it, r.ch), "PossibleNext")
              [] OTHER -> Go(x, r.it, "Abort")
    IN got(CharsNext(x.chars))

\* State::PossibleNext
SelStepPossibleNext(x) ==
    LET got(r) ==
            CASE r.ch = None -> Go(x, r.it, "Ok")
              [] r.ch \in Whitespace ->
                   Go(x, CharsNextWhile(r.it, Whitespace), "PossibleNext")
              [] r.ch = ">" -> Shifted(x, r.it, "Child", "CompulsoryNext")
              [] OTHER -> Shifted(x, CharsPush(r.it, r.ch), "Descendant", "Start")
    IN got(CharsNext(x.chars))

\* State::CompulsoryNext
SelStepCompulsoryNext(x) ==
    LET got(r) ==
            CASE r.ch = None -> Fail(x, r.it, "InvalidSelector")
              [] r.ch \in Whitespace -> Go(x, r.it, "CompulsoryNext")
              [] OTHER -> Go(x, CharsPush(r.it, r.ch), "Start")
    IN got(CharsNext(x.chars))

\* parse_selector has returned (Ok, Err) or aborted
SelFinished(x) == x.state \in {"Ok", "Err", "Abort"}

\* One iteration of a loop of parse_selector
SelStep(x) ==
    CASE x.state = "Start" -> SelStepStart(x)
      [] x.state = "Class" -> SelStepClass(x)
      [] x.state = "Universal" -> SelStepUniversal(x)
      [] x.state = "Id" -> SelStepId(x)
      [] x.state = "AttributeName" -> SelStepAttributeName(x)
      [] x.state = "AttributeValue" -> SelStepAttributeValue(x)
      [] x.state = "AttributeValueLoop" -> SelStepAttributeValueLoop(x)
      [] x.state = "TagName" -> SelStepTagName(x)
      [] x.state = "PossibleEnd" -> SelStepPossibleEnd(x)
      [] x.state = "PossibleNext" -> SelStepPossibleNext(x)
      [] x.state = "CompulsoryNext" -> SelStepCompulsoryNext(x)

\* parse_selector run for at most `fuel` iterations of its loops; a parse that
\* is still running then is marked "Hang"
RECURSIVE SelRun(_, _)
SelRun(x, fuel) ==
    IF SelFinished(x) THEN x
    ELSE IF fuel = 0 THEN [x EXCEPT !.state = "Hang"]
    ELSE SelRun(SelStep(x), fuel - 1)

\* parse_selector: a parse that ends reads no character more than three times
\* (next_while, PossibleNext and Start each read and push back the same one)
ParseSelector(selector) == SelRun(NewSel(selector), 3 * Len(selector) + 3)

\* Selector::compare, with the loop of the Descendant arm over the ancestors
RECURSIVE Compare(_, _, _)
RECURSIVE AncestorCompare(_, _, _)
RECURSIVE PatternCompare(_, _, _)
\* the walk that stops at the parent
AncestorCompareParent(selector, h, parent) ==
    parent # 0 /\ Compare(selector, h, parent)

AncestorCompare(selector, h, parent) ==
    IF parent = 0 THEN FALSE
    ELSE Compare(selector, h, parent) \/ AncestorCompare(selector, h, Parent(h, parent))

\* compare whose Child arm accepts any ancestor
PatternCompareAnyAncestor(pattern, h, e) ==
    CASE pattern.kind = "Universal" -> TRUE
      [] pattern.kind = "Tag" -> h[e].name = pattern.tag
      [] pattern.kind = "Class" ->
           \E k \in DOMAIN h[e].class_list : h[e].class_list[k] = pattern.name
      [] pattern.kind = "Id" ->
           IsSome(GetAttribute(h, e, ID)) /\ Unwrap(GetAttribute(h, e, ID)) = pattern.id
      [] pattern.kind = "Attribute" ->
           /\ IsSome(GetAttribute(h, e, pattern.key))
           /\ IsSome(pattern.value)
                => Unwrap(pattern.value) = Unwrap(GetAttribute(h, e, pattern.key))
      [] pattern.kind = "Descendant" ->
           /\ Compare(pattern.relation[2], h, e)
           /\ AncestorCompare(pattern.relation[1], h, Parent(h, e))
      [] pattern.kind = "Child" ->
           /\ Compare(pattern.relation[2], h, e)
           /\ AncestorCompare(pattern.relation[1], h, Parent(h, e))
      [] pattern.kind = "Group" ->
           \E k \in DOMAIN pattern.group : Compare(pattern.group[k], h, e)

\* Selector::compare, one arm of the match on a pattern
PatternCompare(pattern, h, e) ==
    CASE pattern.kind = "Universal" -> TRUE
      [] pattern.kind = "Tag" -> h[e].name = pattern.tag
      [] pattern.kind = "Class" ->
           \E k \in DOMAIN h[e].class_list : h[e].class_list[k] = pattern.name
      [] pattern.kind = "Id" ->
           IsSome(GetAttribute(h, e, ID)) /\ Unwrap(GetAttribute(h, e, ID)) = pattern.id
      [] pattern.kind = "Attribute" ->
           /\ IsSome(GetAttribute(h, e, pattern.key))
           /\ IsSome(pattern.value)
                => Unwrap(pattern.value) = Unwrap(GetAttribute(h, e, pattern.key))
      [] pattern.kind = "Descendant" ->
           /\ Compare(pattern.relation[2], h, e)
           /\ AncestorCompare(pattern.relation[1], h, Parent(h, e))
      [] pattern.kind = "Child" ->
           /\ Compare(pattern.relation[2], h, e)
           /\ Parent(h, e) # 0
           /\ Compare(pattern.relation[1], h, Parent(h, e))
      [] pattern.kind = "Group" ->
           \E k \in DOMAIN pattern.group : Compare(pattern.group[k], h, e)

\* compare that stops after the first pattern
CompareFirst(selector, h, e) ==
    selector.patterns = <<>> \/ PatternCompare(selector.patterns[1], h, e)

Compare(selector, h, e) ==
    \A k \in DOMAIN selector.patterns : PatternCompare(selector.patterns[k], h, e)

\* ElementRef::matches: [panic, hit]; an Err of parse_selector panics
Matches(h, e, selector) ==
    LET got(x) ==
            IF x.state = "Ok"
            THEN [panic |-> FALSE, hit |-> Compare(Host(x.store), h, e)]
            ELSE [panic |-> TRUE, hit |-> FALSE]
    IN got(ParseSelector(selector))

\* Query::query_selector: [panic, found], found NoneOpt or Some(element)
RECURSIVE QuerySelector(_, _, _)
RECURSIVE QuerySelectorLoop(_, _, _)
QuerySelectorLoop(h, references, selector) ==
    LET inner(r) ==
            IF r.panic \/ IsSome(r.found) THEN r
            ELSE QuerySelectorLoop(h, Tail(references), selector)
        got(m) ==
            IF m.panic THEN [panic |-> TRUE, found |-> NoneOpt]
            ELSE IF m.hit THEN [panic |-> FALSE, found |-> Some(Head(references))]
            ELSE inner(QuerySelector(h, Head(references), selector))
    IN IF references = <<>> THEN [panic |-> FALSE, found |-> NoneOpt]
       ELSE got(Matches(h, Head(references), selector))

\* query_selector that visits the children from the last to the first
QuerySelectorReversed(h, self, selector) ==
    QuerySelectorLoop(h, [k \in DOMAIN Children(h, self) |->
                             Children(h, self)[Len(Children(h, self)) + 1 - k]],
                      selector)

QuerySelector(h, self, selector) == QuerySelectorLoop(h, Children(h, self), selector)

\* Query::query_selector_all: [panic, matches]
RECURSIVE QuerySelectorAll(_, _, _)
RECURSIVE QuerySelectorAllLoop(_, _, _, _)
QuerySelectorAllLoop(h, references, selector, matches) ==
    LET inner(r, pushed) ==
            IF r.panic THEN [panic |-> TRUE, matches |-> <<>>]
            ELSE QuerySelectorAllLoop(h, Tail(references), selector, pushed \o r.matches)
        got(m) ==
            IF m.panic THEN [panic |-> TRUE, matches |-> <<>>]
            ELSE inner(IF HasChildren(h, Head(references))
                       THEN QuerySelectorAll(h, Head(references), selector)
                       ELSE [panic |-> FALSE, matches |-> <<>>],
                       IF m.hit THEN Append(matches, Head(references)) ELSE matches)
    IN IF references = <<>> THEN [panic |-> FALSE, matches |-> matches]
       ELSE got(Matches(h, Head(references), selector))

QuerySelectorAll(h, self, selector) ==
    QuerySelectorAllLoop(h, Children(h, self), selector, <<>>)

(***************************************************************************)
(* Specification of parse_selector                                         *)
(***************************************************************************)
MaxSelLen == 3
MaxCache == 4

SelAlphabet == {"a", "1", " ", ".", "#", "[", "]", "=", "'", ">", "*", ","}

\* Every selector string of at most MaxSelLen characters over the alphabet
ShortSelectors == UNION {[1..n -> SelAlphabet] : n \in 0..MaxSelLen}

\* Longer selectors: attribute values, compound and related selectors
LongSelectors == {
    <<"[","a","=","b","]">>,
    <<"[","a","=","'","b","'","]">>,
    <<"[","a","=","\"","b","\""," ","]">>,
    <<"[","a","=","'","b","'","a","]">>,
    <<"[","a","]","a">>,
    <<"[","a","]"," ","b">>,
    <<"[","a","]",".","b">>,
    <<"a"," "," ","b">>,
    <<"a"," ",">"," ","b">>,
    <<"A"," ","b"," ","c">>,
    <<"#","a","#","a">>,
    <<"#","a","#","b">>,
    <<"a",".","b","#","c">>,
    <<"a",","," ","b">>,
    <<"*",">","a">>,
    <<"*"," ","a","b">>}

Selectors == ShortSelectors \cup LongSelectors

\* No tokenizer, builder or element is in use
TokIdle ==
    /\ input = <<>>
    /\ mode = "Idle"
    /\ state = "Idle"
    /\ it = NewIterator
    /\ ts = NewTokenStore
    /\ parser = NewParser
    /\ sync = NewSync

SelInit ==
    /\ TokIdle
    /\ elems = <<>>
    /\ sel \in {NewSel(s) : s \in Selectors}
    /\ dom = DomIdle
    /\ query = QueryIdle

SelAt(s) == sel.state = s /\ UNCHANGED <<input, mode, state, it, ts, parser, sync, elems, dom, query>>

SelStart == SelAt("Start") /\ sel' = SelStepStart(sel)
SelClass == SelAt("Class") /\ sel' = SelStepClass(sel)
SelUniversal == SelAt("Universal") /\ sel' = SelStepUniversal(sel)
SelId == SelAt("Id") /\ sel' = SelStepId(sel)
SelAttributeName == SelAt("AttributeName") /\ sel' = SelStepAttributeName(sel)
SelAttributeValue == SelAt("AttributeValue") /\ sel' = SelStepAttributeValue(sel)
SelAttributeValueLoop ==
    /\ SelAt("AttributeValueLoop")
    /\ Len(sel.store.cache1) < MaxCache
    /\ sel' = SelStepAttributeValueLoop(sel)
SelTagName == SelAt("TagName") /\ sel' = SelStepTagName(sel)
SelPossibleEnd == SelAt("PossibleEnd") /\ sel' = SelStepPossibleEnd(sel)
SelPossibleNext == SelAt("PossibleNext") /\ sel' = SelStepPossibleNext(sel)
SelCompulsoryNext == SelAt("CompulsoryNext") /\ sel' = SelStepCompulsoryNext(sel)

SelNext ==
    \/ SelStart
    \/ SelClass
    \/ SelUniversal
    \/ SelId
    \/ SelAttributeName
    \/ SelAttributeValue
    \/ SelAttributeValueLoop
    \/ SelTagName
    \/ SelPossibleEnd
    \/ SelPossibleNext
    \/ SelCompulsoryNext

SpecSel == SelInit /\ [][SelNext]_vars
\* the loops of parse_selector keep running until they are left
FairSel == SpecSel /\ WF_vars(SelNext)

(***************************************************************************)
(* Specification of the Node operations on elements                        *)
(***************************************************************************)
MaxChildren == 4

RECURSIVE CountChildren(_, _)
\* The length of the child lists of the first n elements together
CountChildren(h, n) ==
    IF n = 0 THEN 0 ELSE Len(h[n].child_nodes) + CountChildren(h, n - 1)

\* The child lists hold fewer than MaxChildren nodes together
RoomForChild == CountChildren(elems, Len(elems)) < MaxChildren

\* ElementRef::new for each name
RECURSIVE NewElements(_)
NewElements(names) ==
    IF names = <<>> THEN <<>>
    ELSE ElementRefFrom(NewElements(SubSeq(names, 1, Len(names) - 1)),
                        HtmlTagNew(names[Len(names)]))

DomNames == <<<<"a">>, <<"b">>, <<"c">>>>

\* The call a driver made last, on an element and another element.  An append records the child list of self
\* before it, and a remove that follows the append of the same node to the
\* same element carries that list on
DomCall(op, self, node, before) ==
    [op |-> op, self |-> self, node |-> node, before |-> before]

DomInit ==
    /\ TokIdle
    /\ elems = NewElements(DomNames)
    /\ sel = SelIdle
    /\ dom = [op |-> "new"]
    /\ query = QueryIdle

DomRest == UNCHANGED <<input, mode, state, it, ts, parser, sync, sel, query>>

DomAppend ==
    \E self \in DOMAIN elems, child \in DOMAIN elems :
        /\ child # self
        /\ RoomForChild
        /\ elems' = ElementAppend(elems, self, child)
        /\ dom' = DomCall("append", self, child, elems[self].child_nodes)
        /\ DomRest

DomPrepend ==
    \E self \in DOMAIN elems, child \in DOMAIN elems :
        /\ child # self
        /\ RoomForChild
        /\ elems' = ElementPrepend(elems, self, child)
        /\ dom' = [op |-> "prepend"]
        /\ DomRest

DomAfter ==
    \E self \in DOMAIN elems, node \in DOMAIN elems :
        /\ node # self
        /\ RoomForChild
        /\ elems' = ElementAfter(elems, self, node).h
        /\ dom' = [op |-> "after", panic |-> ElementAfter(elems, self, node).panic]
        /\ DomRest

DomRemove ==
    \E self \in DOMAIN elems, node \in DOMAIN elems :
        /\ node # self
        /\ elems' = ElementRemove(elems, self, node)
        /\ dom' = IF dom.op = "append" /\ dom.self = self /\ dom.node = node
                  THEN DomCall("undo", self, node, dom.before)
                  ELSE [op |-> "remove"]
        /\ DomRest

DomNext == DomAppend \/ DomPrepend \/ DomAfter \/ DomRemove

SpecDom == DomInit /\ [][DomNext]_vars

(***************************************************************************)
(* Specification of the attribute and class operations on one element      *)
(***************************************************************************)
MaxValueLen == 3
MaxClasses == 3

ValueAlphabet == {"x", "y", " "}
\* Every attribute value of at most MaxValueLen characters over the alphabet
ClassValues == UNION {[1..n -> ValueAlphabet] : n \in 0..MaxValueLen}
ClassNames == {<<"x">>, <<"y">>}

ClassInit ==
    /\ TokIdle
    /\ elems = NewElements(<<<<"a">>>>)
    /\ sel = SelIdle
    /\ dom = [op |-> "new"]
    /\ query = QueryIdle

ClassSetAttribute ==
    \E e \in DOMAIN elems, name \in {CLASS, ID}, value \in ClassValues :
        /\ name = ID => value = <<"x">>
        /\ elems' = SetAttribute(elems, e, name, value)
        /\ dom' = [op |-> "set_attribute", self |-> e, name |-> name]
        /\ DomRest

ClassRemoveAttribute ==
    \E e \in DOMAIN elems, name \in {CLASS, ID} :
        /\ elems' = RemoveAttribute(elems, e, name)
        /\ dom' = [op |-> "remove_attribute", self |-> e, name |-> name]
        /\ DomRest

ClassAddClass ==
    \E e \in DOMAIN elems, class_name \in ClassNames :
        /\ Len(elems[e].class_list) < MaxClasses
        /\ elems' = AddClass(elems, e, class_name)
        /\ dom' = [op |-> "add_class", self |-> e, name |-> class_name]
        /\ DomRest

ClassRemoveClass ==
    \E e \in DOMAIN elems, class_name \in ClassNames :
        /\ elems' = RemoveClass(elems, e, class_name)
        /\ dom' = [op |-> "remove_class", self |-> e, name |-> class_name]
        /\ DomRest

ClassNext ==
    ClassSetAttribute \/ ClassRemoveAttribute \/ ClassAddClass \/ ClassRemoveClass

SpecClass == ClassInit /\ [][ClassNext]_vars

(***************************************************************************)
(* Specification of query_selector and query_selector_all over trees that  *)
(* append builds from detached elements                                    *)
(***************************************************************************)
\* <a>, <b>, <a class="x">, <b id="y"> as ElementRef::init builds them
QueryDetached ==
    ElementRefInit(
        ElementRefInit(
            ElementRefInit(
                ElementRefInit(<<>>, <<"a">>, <<>>, EmptySpan),
                <<"b">>, <<>>, EmptySpan),
            <<"a">>, <<[key |-> CLASS, value |-> Some(<<"x">>), quote_type |-> "Double"]>>,
            EmptySpan),
        <<"b">>, <<[key |-> ID, value |-> Some(<<"y">>), quote_type |-> "Double"]>>,
        EmptySpan)

\* The elements, the first with a text node in it (append_text)
QueryElements ==
    [QueryDetached EXCEPT ![1].child_nodes =
        <<[type |-> "Text", content |-> <<"t">>, span |-> EmptySpan]>>]

QuerySelectors == {
    <<"a">>, <<"b">>, <<"*">>, <<".","x">>, <<"#","y">>, <<"c">>,
    <<"a"," ","b">>, <<"b"," ","a">>, <<"a"," ",">"," ","b">>, <<"a",".","x">>,
    <<"[","i","d","]">>, <<"a"," ","a">>, <<>>, <<"1">>}

QueryInit ==
    /\ TokIdle
    /\ elems = QueryElements
    /\ sel = SelIdle
    /\ dom = DomIdle
    /\ query = QueryIdle

\* self or one of the ancestors of e
RECURSIVE SelfOrAncestors(_, _)
SelfOrAncestors(h, e) ==
    IF e = 0 THEN {} ELSE {e} \cup SelfOrAncestors(h, Parent(h, e))

QueryRest == UNCHANGED <<input, mode, state, it, ts, parser, sync, sel, dom>>

\* append of a detached element, which keeps the elements a forest
QueryAppend ==
    \E self \in DOMAIN elems, child \in DOMAIN elems :
        /\ query = QueryIdle
        /\ Parent(elems, child) = 0
        /\ child \notin SelfOrAncestors(elems, self)
        /\ elems' = ElementAppend(elems, self, child)
        /\ UNCHANGED query
        /\ QueryRest

\* query_selector and query_selector_all on the same root and selector;
\* query_selector returns a clone of the element it found
QueryBoth ==
    \E self \in DOMAIN elems, selector \in QuerySelectors :
        /\ query = QueryIdle
        /\ query' = [op |-> "query", self |-> self, selector |-> selector,
                     first |-> QuerySelector(elems, self, selector),
                     all |-> QuerySelectorAll(elems, self, selector)]
        /\ elems' = IF IsSome(query'.first.found)
                    THEN CloneRef(elems, Unwrap(query'.first.found)) ELSE elems
        /\ QueryRest

\* The results go out of scope: the clone query_selector returned is dropped
QueryDrop ==
    /\ query # QueryIdle
    /\ elems' = IF IsSome(query.first.found)
                THEN DropRef(elems, Unwrap(query.first.found)) ELSE elems
    /\ query' = QueryIdle
    /\ QueryRest

QueryNext == QueryAppend \/ QueryBoth \/ QueryDrop

SpecQuery == QueryInit /\ [][QueryNext]_vars

(***************************************************************************)
(* Properties                                                              *)
(***************************************************************************)
\* One iteration of the loop of tokenize
TokStep(s, i, t) ==
    CASE s = "Data" -> StepData(i, t)
      [] s = "OpeningTag" -> StepOpeningTag(i, t)
      [] s = "AttributeName" -> StepAttributeName(i, t)
      [] s = "AttributeValue" -> StepAttributeValue(i, t)
      [] s = "ClosingTag" -> StepClosingTag(i, t)
      [] s = "Comment" -> StepComment(i, t)
      [] s = "BogusComment" -> StepBogusComment(i, t)
      [] s = "Doctype" -> StepDoctype(i, t)

TokStates == {"Data", "OpeningTag", "AttributeName", "AttributeValue",
              "ClosingTag", "Comment", "BogusComment", "Doctype"}

\* An iteration of the loop of tokenize that ends in the state it started in,
\* with the iterator and the store as they were but for one more error: the
\* next iteration does the same, and so does every one after it
TokSpins ==
    LET same(r) ==
            /\ r.state = state
            /\ r.it = it
            /\ [r.ts EXCEPT !.errors = <<>>] = [ts EXCEPT !.errors = <<>>]
    IN state \in TokStates /\ same(TokStep(state, it, ts))

EofTokens == {k \in DOMAIN ts.tokens : ts.tokens[k].type = "EOF"}

\* C1: tokenize terminates on every input, and the token vector it returns
\* ends with exactly one EOF token, which is its last token.  A tokenizer that
\* terminates has no iteration of its loop that repeats itself forever, and
\* when it is done the only EOF token is the last token.
TokenizeTerminatesWithEof ==
    /\ ~TokSpins
    /\ state = "Done" => EofTokens = {Len(ts.tokens)}

\* C2: parse_html_input returns a tree and its diagnostics for every input in
\* both modes: no token sequence drives a builder into an abort path
\* (todo!(), unreachable!(), a failed unwrap or an arithmetic overflow).
ParseNeverAborts == state # "Abort"

\* An iteration of a loop of parse_selector that leaves the state and the
\* characters still to read as they were: it read a character and pushed it
\* back, and the next iteration reads it again
SelSpins ==
    LET same(n) == n.state = sel.state /\ n.chars = sel.chars
    IN sel.state \notin {"Idle", "Ok", "Err", "Abort"} /\ same(SelStep(sel))

\* C3: parse_selector terminates on every input: each iteration of a loop
\* consumes a character of the source or ends the parse, inside attribute
\* values too, so that no iteration leaves the parser where it was.
SelectorParseProgresses == ~SelSpins

SelectorErrors == {"EmptySelector", "InvalidTag", "InvalidSelector", "MultipleIds"}

\* C4: parse_selector returns a SelectorStore or one of the four selector
\* errors: no input reaches an abort path (todo!() or a failed unwrap).
SelectorParseNeverAborts ==
    /\ sel.state # "Abort"
    /\ sel.state = "Err" => IsSome(sel.error) /\ Unwrap(sel.error) \in SelectorErrors

\* The child indices that lead from root down to e, <<0>> when e is not below root
RECURSIVE PathTo(_, _, _)
PathTo(h, root, e) ==
    LET below(up) ==
            IF up = <<0>> THEN <<0>>
            ELSE Append(up, Unwrap(GetIndexOf(h, Parent(h, e), e)) + 1)
    IN IF e = root THEN <<>>
       ELSE IF Parent(h, e) = 0 THEN <<0>>
       ELSE below(PathTo(h, root, Parent(h, e)))

\* The element descendants of root, root excluded
Descendants(h, root) == {e \in DOMAIN h : e # root /\ PathTo(h, root, e) # <<0>>}

\* p comes before q in depth-first pre-order: p is an ancestor of q, or p
\* branches off to an earlier child where they part
Before(p, q) ==
    \/ Len(p) < Len(q) /\ SubSeq(q, 1, Len(p)) = p
    \/ \E k \in 1..Len(p) :
           /\ k <= Len(q)
           /\ SubSeq(p, 1, k - 1) = SubSeq(q, 1, k - 1)
           /\ p[k] < q[k]

\* C5: for a selector that parses, query_selector_all(R, s) returns exactly
\* the element descendants E of R (R excluded) with matches(E, s), in
\* depth-first pre-order, and query_selector(R, s) returns the first of them,
\* or nothing when there is none.
QueryIsPreOrder ==
    query.op = "query" /\ ParseSelector(query.selector).state = "Ok" =>
        LET all == query.all.matches
            path(e) == PathTo(elems, query.self, e)
        IN /\ ~query.all.panic
           /\ ~query.first.panic
           /\ \A k \in DOMAIN all :
                  /\ all[k] \in Descendants(elems, query.self)
                  /\ Matches(elems, all[k], query.selector).hit
           /\ \A e \in Descendants(elems, query.self) :
                  Matches(elems, e, query.selector).hit
                      => \E k \in DOMAIN all : all[k] = e
           /\ \A j, k \in DOMAIN all : j < k => Before(path(all[j]), path(all[k]))
           /\ query.first.found = IF all = <<>> THEN NoneOpt ELSE Some(all[1])

\* A query with two matches, one of them a grandchild of the root or deeper,
\* and a descendant that does not match
QueryFindsDeepMatch ==
    /\ query.op = "query"
    /\ ParseSelector(query.selector).state = "Ok"
    /\ Len(query.all.matches) >= 2
    /\ \E k \in DOMAIN query.all.matches :
           Len(PathTo(elems, query.self, query.all.matches[k])) >= 2
    /\ Cardinality(Descendants(elems, query.self)) > Len(query.all.matches)
    /\ query.first.found = Some(query.all.matches[1])

AsciiWhitespace == {" ", "\t", "\n", "\f", "\r"}

\* str::split_ascii_whitespace: the maximal runs of characters that are not
\* ASCII whitespace
RECURSIVE SplitAsciiWhitespace(_, _)
SplitAsciiWhitespace(s, piece) ==
    LET word == IF piece = <<>> THEN <<>> ELSE <<piece>>
    IN IF s = <<>> THEN word
       ELSE IF Head(s) \in AsciiWhitespace
       THEN word \o SplitAsciiWhitespace(Tail(s), <<>>)
       ELSE SplitAsciiWhitespace(Tail(s), Append(piece, Head(s)))

\* The whitespace-split of the class attribute of e, empty when it is absent
ClassTokens(h, e) ==
    IF IsSome(GetAttribute(h, e, CLASS))
    THEN SplitAsciiWhitespace(Unwrap(GetAttribute(h, e, CLASS)), <<>>)
    ELSE <<>>

\* C6: after any sequence of set_attribute, remove_attribute, add_class and
\* remove_class, class_list is the whitespace-split of the current value of
\* the class attribute, and empty when the attribute is absent.
ClassListFollowsAttribute ==
    \A e \in DOMAIN elems : elems[e].class_list = ClassTokens(elems, e)

\* C7: for a non-empty v, set_attribute(E, "class", v) leaves class_list(E)
\* equal to split_ascii_whitespace(v), with no empty token in it.
SetClassSplitsWhitespace ==
    /\ dom.op = "set_attribute"
    /\ dom.name = CLASS
    /\ Unwrap(GetAttribute(elems, dom.self, CLASS)) # <<>>
    => /\ elems[dom.self].class_list = ClassTokens(elems, dom.self)
       /\ \A k \in DOMAIN elems[dom.self].class_list :
              elems[dom.self].class_list[k] # <<>>

\* C8: in every state that append, prepend, after and remove reach, an
\* element E with parent(E) = P occurs exactly once in the child list of P.
ChildOfItsParentOnce ==
    \A e \in DOMAIN elems :
        Parent(elems, e) # 0
            => Occurrences(elems[Parent(elems, e)].child_nodes, e) = 1

\* The elements whose child list holds e
Holders(h, e) == {p \in DOMAIN h : Occurrences(h[p].child_nodes, e) > 0}

\* C9: appending to P2 an element C that is a child of P1 moves it: after
\* the append C is in no child list but that of P2, and at every time an
\* element is in at most one child list.
AppendMoves ==
    /\ dom.op = "append" => Holders(elems, dom.node) \subseteq {dom.self}
    /\ \A e \in DOMAIN elems : Cardinality(Holders(elems, e)) <= 1

\* C10, as stated: append(P, C) followed by remove(P, C) leaves the child list
\* of P as it was before the append, and parent(C) = None.
AppendThenRemoveRestores ==
    dom.op = "undo" =>
        /\ elems[dom.self].child_nodes = dom.before
        /\ Parent(elems, dom.node) = 0

\* C10, amended: when C is not in the child list of P before the append,
\* append(P, C) followed by remove(P, C) leaves the child list of P as it was
\* before the append, and parent(C) = None.
AppendThenRemoveRestoresNewChild ==
    dom.op = "undo" /\ Occurrences(dom.before, dom.node) = 0 =>
        /\ elems[dom.self].child_nodes = dom.before
        /\ Parent(elems, dom.node) = 0

\* remove(P, C) has followed append(P, C), P has another child, and C was
\* not in the child list of P before the append
RemovedNewChild ==
    /\ dom.op = "undo"
    /\ Occurrences(dom.before, dom.node) = 0
    /\ dom.before # <<>>
    /\ elems[dom.self].child_nodes = dom.before
    /\ dom.self # dom.node

(***************************************************************************)
(* Node::contains and ElementRef::matches over trees that append and       *)
(* prepend build from detached elements                                    *)
(***************************************************************************)
\* contains that looks at the children only
ContainsChild(h, self, node) ==
    \E k \in DOMAIN Children(h, self) : Children(h, self)[k] = node

\* Node::contains
RECURSIVE Contains(_, _, _)
RECURSIVE ContainsLoop(_, _, _)
ContainsLoop(h, references, node) ==
    IF references = <<>> THEN FALSE
    ELSE IF Head(references) = node THEN TRUE
    ELSE IF Contains(h, Head(references), node) THEN TRUE
    ELSE ContainsLoop(h, Tail(references), node)

Contains(h, self, node) == ContainsLoop(h, Children(h, self), node)

\* Selectors matches is called with: simples, compounds in both orders,
\* descendant and child chains
TreeSelectors == {
    <<"a">>, <<"b">>, <<"*">>, <<".","x">>, <<"#","y">>, <<"[","i","d","]">>,
    <<"[","c","l","a","s","s","=","'","x","'","]">>,
    <<"a",".","x">>, <<"b","#","y">>, <<"b","[","i","d","]">>,
    <<".","x","[","c","l","a","s","s","=","'","x","'","]">>,
    <<"[","c","l","a","s","s","=","'","x","'","]",".","x">>,
    <<"#","y","[","i","d","]">>, <<"[","i","d","]","#","y">>,
    <<"#","y",".","x">>, <<".","x","#","y">>,
    <<"a"," ","b">>, <<"b"," ","a">>, <<"*"," ","*">>, <<"a"," ","a">>,
    <<"a"," ","b"," ","a">>, <<"a"," ","a"," ","b">>, <<"*"," ","*"," ","*">>,
    <<"a"," ",">"," ","b"," ","a">>, <<"a"," ",">"," ","b"," ","#","y">>,
    <<"a"," ",".","x"," ","b">>, <<"a"," ","b","#","y">>,
    <<"a"," ",">"," ","b">>, <<"b"," ",">"," ","a">>, <<"*"," ",">"," ","*">>,
    <<"a"," ",">"," ","b"," ",">"," ","a">>, <<"a"," ",">"," ","a"," ",">"," ","b">>,
    <<"a"," ","b"," ",">"," ","a">>, <<"a"," ","b"," ",">"," ","#","y">>,
    <<"*"," ",">"," ","*"," ",">"," ","*">>, <<"a",">","b">>}

\* <a class="x">, <b class="x" id="y">, <a> as ElementRef::init builds them
TreeDetached ==
    ElementRefInit(
        ElementRefInit(
            ElementRefInit(<<>>, <<"a">>,
                <<[key |-> CLASS, value |-> Some(<<"x">>), quote_type |-> "Double"]>>,
                EmptySpan),
            <<"b">>,
            <<[key |-> CLASS, value |-> Some(<<"x">>), quote_type |-> "Double"],
              [key |-> ID, value |-> Some(<<"y">>), quote_type |-> "Double"]>>,
            EmptySpan),
        <<"a">>, <<>>, EmptySpan)

TreeInit ==
    /\ TokIdle
    /\ elems = TreeDetached
    /\ sel = SelIdle
    /\ dom = DomIdle
    /\ query = QueryIdle

\* append of a detached element
TreeAppend ==
    \E self \in DOMAIN elems, child \in DOMAIN elems :
        /\ Parent(elems, child) = 0
        /\ child \notin SelfOrAncestors(elems, self)
        /\ elems' = ElementAppend(elems, self, child)
        /\ query' = QueryIdle
        /\ QueryRest

\* prepend of a detached element
TreePrepend ==
    \E self \in DOMAIN elems, child \in DOMAIN elems :
        /\ Parent(elems, child) = 0
        /\ child \notin SelfOrAncestors(elems, self)
        /\ elems' = ElementPrepend(elems, self, child)
        /\ query' = QueryIdle
        /\ QueryRest

\* self.contains(node)
TreeContains ==
    \E self \in DOMAIN elems, node \in DOMAIN elems :
        /\ query = QueryIdle
        /\ query' = [op |-> "contains", self |-> self, node |-> node,
                     result |-> Contains(elems, self, node)]
        /\ UNCHANGED elems
        /\ QueryRest

\* self.matches(selector)
TreeMatches ==
    \E self \in DOMAIN elems, selector \in TreeSelectors :
        /\ query = QueryIdle
        /\ query' = [op |-> "matches", self |-> self, selector |-> selector,
                     result |-> Matches(elems, self, selector)]
        /\ UNCHANGED elems
        /\ QueryRest

TreeNext == TreeAppend \/ TreePrepend \/ TreeContains \/ TreeMatches

SpecTree == TreeInit /\ [][TreeNext]_vars

\* C11: in every tree that append and prepend build, contains(P, X) is true
\* exactly when X is reachable from P by a non-empty path of child links.
ContainsIsReachability ==
    query.op = "contains" =>
        (query.result <=> query.node \in Descendants(elems, query.self))

\* contains found a grandchild, or deeper
ContainsFindsGrandchild ==
    /\ query.op = "contains"
    /\ query.result
    /\ Len(PathTo(elems, query.self, query.node)) >= 2

\* C12: every call that puts C into the child list of an element (append,
\* prepend, after) leaves parent(C) equal to that element, and every call that
\* takes C out of a child list (remove) leaves parent(C) = None.
ParentIsTheReceivingElement ==
    [][\A p \in DOMAIN elems, e \in DOMAIN elems :
          /\ Occurrences(elems'[p].child_nodes, e) > Occurrences(elems[p].child_nodes, e)
                => Parent(elems', e) = p
          /\ Occurrences(elems'[p].child_nodes, e) < Occurrences(elems[p].child_nodes, e)
                => Parent(elems', e) = 0]_vars

\* The id simples of a compound: its top-level Id patterns
IdPatterns(selector) ==
    {k \in DOMAIN selector.patterns : selector.patterns[k].kind = "Id"}

\* C13: a successfully parsed compound holds at most one id simple (two id
\* simples, equal or different, fail with MultipleIds).
ParsedCompoundHoldsOneId ==
    sel.state = "Ok" => Cardinality(IdPatterns(Host(sel.store))) <= 1

\* C14: a selector made of two alternatives around a `,`, each of which
\* parses on its own, parses successfully.
GroupSelectorParses ==
    \A k \in DOMAIN sel.selector :
        /\ SelFinished(sel)
        /\ sel.selector[k] = ","
        /\ ParseSelector(SubSeq(sel.selector, 1, k - 1)).state = "Ok"
        /\ ParseSelector(SubSeq(sel.selector, k + 1, Len(sel.selector))).state = "Ok"
        => sel.state = "Ok"

\* The characters of the strings of a sequence, one after the other
RECURSIVE Flatten(_)
Flatten(strings) ==
    IF strings = <<>> THEN <<>> ELSE Head(strings) \o Flatten(Tail(strings))

\* The same strings, last first
Reversed(strings) == [k \in DOMAIN strings |-> strings[Len(strings) + 1 - k]]

\* The simples each compound of TreeSelectors is made of
TreeCompounds == {
    << <<"a">>, <<".","x">> >>,
    << <<"b">>, <<"#","y">> >>,
    << <<"b">>, <<"[","i","d","]">> >>,
    << <<".","x">>, <<"[","c","l","a","s","s","=","'","x","'","]">> >>,
    << <<"[","c","l","a","s","s","=","'","x","'","]">>, <<".","x">> >>,
    << <<"#","y">>, <<"[","i","d","]">> >>,
    << <<"[","i","d","]">>, <<"#","y">> >>,
    << <<"#","y">>, <<".","x">> >>,
    << <<".","x">>, <<"#","y">> >>}

\* C15: a compound selector matches an element exactly when every one of its
\* simples matches it, and a compound of class, id and attribute simples
\* matches the same elements when its simples are written in the other order.
CompoundIsConjunction ==
    \A c \in TreeCompounds :
        query.op = "matches" /\ query.selector = Flatten(c) =>
            /\ ~query.result.panic
            /\ query.result.hit <=>
                   \A k \in DOMAIN c : Matches(elems, query.self, c[k]).hit
            /\ c[1] \notin {<<"a">>, <<"b">>} =>
                   Matches(elems, query.self, Flatten(Reversed(c))) = query.result

\* matches("#y.x") is true of the element that has the id and the class
CompoundMatched ==
    /\ query.op = "matches"
    /\ query.selector = <<"#","y",".","x">>
    /\ query.result.hit

\* The ancestors of e: its parent, the parent of its parent, ...
ProperAncestors(h, e) == SelfOrAncestors(h, e) \ {e}

\* <<P, D>> for the descendant selectors "P D" of TreeSelectors
TreeDescendantPairs == {
    << <<"a">>, <<"b">> >>, << <<"b">>, <<"a">> >>, << <<"*">>, <<"*">> >>,
    << <<"a">>, <<"a">> >>, << <<"a">>, <<"b","#","y">> >>,
    << <<"a"," ","b">>, <<"a">> >>, << <<"a"," ","a">>, <<"b">> >>,
    << <<"*"," ","*">>, <<"*">> >>, << <<"a"," ",".","x">>, <<"b">> >>,
    << <<"a"," ",">"," ","b">>, <<"a">> >>,
    << <<"a"," ",">"," ","b">>, <<"#","y">> >>}

\* C16: matches(E, "P D") holds exactly when D matches E and some proper
\* ancestor of E matches P, also when P is itself a chain.
DescendantIsSomeAncestor ==
    \A c \in TreeDescendantPairs :
        query.op = "matches" /\ query.selector = c[1] \o <<" ">> \o c[2] =>
            /\ ~query.result.panic
            /\ query.result.hit <=>
                   /\ Matches(elems, query.self, c[2]).hit
                   /\ \E p \in ProperAncestors(elems, query.self) :
                          Matches(elems, p, c[1]).hit

\* matches("a a") is true of an element whose parent is not an `a` and whose
\* grandparent is
DescendantMatchedAbove ==
    /\ query.op = "matches"
    /\ query.selector = <<"a"," ","a">>
    /\ query.result.hit
    /\ Parent(elems, query.self) # 0
    /\ ~Matches(elems, Parent(elems, query.self), <<"a">>).hit

\* <<P, C>> for the child selectors "P > C" of TreeSelectors
TreeChildPairs == {
    << <<"a">>, <<"b">> >>, << <<"b">>, <<"a">> >>, << <<"*">>, <<"*">> >>,
    << <<"a"," ",">"," ","b">>, <<"a">> >>, << <<"a"," ",">"," ","a">>, <<"b">> >>,
    << <<"a"," ","b">>, <<"a">> >>, << <<"a"," ","b">>, <<"#","y">> >>,
    << <<"*"," ",">"," ","*">>, <<"*">> >>}

\* C17: matches(E, "P > C") holds exactly when C matches E and the immediate
\* parent of E matches P, also when P is itself a chain; an element with no
\* parent never matches a child selector.
ChildIsTheParent ==
    \A c \in TreeChildPairs :
        query.op = "matches" /\ query.selector = c[1] \o <<" ", ">", " ">> \o c[2] =>
            /\ ~query.result.panic
            /\ query.result.hit <=>
                   /\ Matches(elems, query.self, c[2]).hit
                   /\ Parent(elems, query.self) # 0
                   /\ Matches(elems, Parent(elems, query.self), c[1]).hit

\* matches("a > b > a") is true of the last element of a chain of three
ChildChainMatched ==
    /\ query.op = "matches"
    /\ query.selector = <<"a"," ",">"," ","b"," ",">"," ","a">>
    /\ query.result.hit

\* The diagnostics of the running builder, or of the result it has returned
Diagnostics ==
    IF mode = "Speculative"
    THEN (IF IsSome(parser.result) THEN Unwrap(parser.result).errors ELSE parser.errors)
    ELSE (IF IsSome(sync.result) THEN Unwrap(sync.result).errors ELSE sync.errors)

\* The tokens the next step hands to the builder: what the tokenizer emits to
\* the listener, or the token SyncHtmlParser::next takes
Consumed ==
    IF mode = "Speculative" /\ state \in TokStates THEN TokStep(state, it, ts).ts.sink
    ELSE IF state = "Building" /\ IsSome(SyncNext(sync).token)
    THEN <<Unwrap(SyncNext(sync).token)>>
    ELSE <<>>

\* The element new children go to: 0 stands for the root of the document
CurrentParent ==
    IF mode = "Speculative" THEN parser.current_element
    ELSE IF sync.stack = <<>> THEN 0 ELSE sync.stack[Len(sync.stack)]

\* The nodes attached to the current parent
CurrentNodes ==
    IF CurrentParent # 0 THEN elems[CurrentParent].child_nodes
    ELSE IF mode = "Speculative" THEN parser.tree ELSE sync.nodes

\* An Opening token that opens no element to descend into
IsLeafTag(token) ==
    token.type = "OpeningTag" /\ (token.self_closing \/ IsVoid(token.name))

CountErrors(errors, type) ==
    Cardinality({k \in DOMAIN errors : errors[k].error_type = type})

\* The element was built from a self-closing tag of a non-void name: its
\* diagnostic points at the end of its opening tag
FlaggedSelfClosing(e) ==
    \E k \in DOMAIN Diagnostics :
        /\ Diagnostics[k].error_type = "SelfClosingNonVoidTag"
        /\ Diagnostics[k].location = elems[e].location.open_tag.end

\* C18: in both modes a step whose Opening token is void or self-closing
\* leaves the current parent as it was and attaches the new element to it (or
\* to the root), and no void or self-closing element has children.
LeafTagKeepsCurrentParent ==
    /\ [](\A e \in DOMAIN elems :
              IsVoid(elems[e].name) \/ FlaggedSelfClosing(e)
                  => elems[e].child_nodes = <<>>)
    /\ [][/\ Len(Consumed) = 1
          /\ IsLeafTag(Consumed[1])
          /\ state' # "Abort"
          => /\ CurrentParent' = CurrentParent
             /\ CurrentNodes' = Append(CurrentNodes, ElementNode(Len(elems) + 1))
             /\ elems'[Len(elems) + 1].child_nodes = <<>>]_vars

\* A void element whose parent received another node after it
NodeFollowsVoidElement ==
    /\ state = "Done"
    /\ \E p \in DOMAIN elems : \E k \in DOMAIN elems[p].child_nodes :
           /\ IsElement(elems[p].child_nodes[k])
           /\ IsVoid(elems[elems[p].child_nodes[k].ref].name)
           /\ k < Len(elems[p].child_nodes)

\* How many of the tokens are Opening tokens with self_closing set and a
\* non-void tag
SelfClosingNonVoid(tokens) ==
    Cardinality({k \in DOMAIN tokens :
                    /\ tokens[k].type = "OpeningTag"
                    /\ tokens[k].self_closing
                    /\ ~IsVoid(tokens[k].name)})

\* C19: in both modes the builder records one SelfClosingNonVoidTag for each
\* Opening token that has self_closing set and a non-void tag, and none for
\* any other token; `<input />` ends with no diagnostics and
\* `<button disabled/>` with exactly that one.
SelfClosingNonVoidIsFlagged ==
    /\ [][state' # "Abort" =>
              CountErrors(Diagnostics', "SelfClosingNonVoidTag")
                  = CountErrors(Diagnostics, "SelfClosingNonVoidTag")
                        + SelfClosingNonVoid(Consumed)]_vars
    /\ [](state = "Done" /\ input = <<"<","i","n","p","u","t"," ","/",">">>
              => Diagnostics = <<>>)
    /\ [](state = "Done"
          /\ input = <<"<","b","u","t","t","o","n"," ","d","i","s","a","b","l","e","d","/",">">>
              => /\ Len(Diagnostics) = 1
                 /\ Diagnostics[1].error_type = "SelfClosingNonVoidTag")

\* The builder has returned with a SelfClosingNonVoidTag among its diagnostics
SelfClosingNonVoidFlagged ==
    /\ state = "Done"
    /\ CountErrors(Diagnostics, "SelfClosingNonVoidTag") = 1

\* C20: a Closing token of a void tag makes the builder record a
\* VoidElementEndTag diagnostic: after `</br>` the diagnostics hold one.
VoidEndTagIsFlagged ==
    state = "Done" /\ input = <<"<","/","b","r",">">>
        => CountErrors(Diagnostics, "VoidElementEndTag") >= 1

\* The top-level nodes of the document being built
RootNodes == IF mode = "Speculative" THEN parser.tree ELSE sync.nodes

\* The element that becomes current when the current element is closed: its
\* parent, in Synchronous mode the element of the parse_children call below
EnclosingParent ==
    IF mode = "Speculative" THEN Parent(elems, CurrentParent)
    ELSE IF Len(sync.stack) <= 1 THEN 0 ELSE sync.stack[Len(sync.stack) - 1]

\* The Closing token closes the current element
ClosesCurrent(token) ==
    /\ token.type = "ClosingTag"
    /\ CurrentParent # 0
    /\ token.name = elems[CurrentParent].name

\* C21: a Closing token that matches the current open element sets the
\* element's close-tag span and makes its parent current; one that does not
\* match, or arrives when no element is open, records UnexpectedCloseTag at
\* the token's start and leaves the current element and the tree unchanged.
ClosingTagPopsOrIsDiscarded ==
    [][Len(Consumed) = 1 /\ Consumed[1].type = "ClosingTag" /\ state' # "Abort" =>
          IF ClosesCurrent(Consumed[1])
          THEN /\ elems'[CurrentParent].location.close_tag = Some(Consumed[1].span)
               /\ CurrentParent' = EnclosingParent
               /\ Diagnostics' = Diagnostics
          ELSE /\ Diagnostics' =
                      Append(Diagnostics, Err("UnexpectedCloseTag", Consumed[1].name,
                                              Consumed[1].span.start))
               /\ CurrentParent' = CurrentParent
               /\ elems' = elems
               /\ RootNodes' = RootNodes]_vars

\* A stray Closing token was discarded while an element was open
StrayCloseTagInsideElement ==
    /\ CurrentParent # 0
    /\ state # "Abort"
    /\ \E k \in DOMAIN Diagnostics :
           /\ Diagnostics[k].error_type = "UnexpectedCloseTag"
           /\ Diagnostics[k].arg # elems[CurrentParent].name

\* The node a Doctype token stands for
DoctypeNode(token) ==
    [type |-> "DocType", name |-> token.name, identifier |-> token.identifier,
     force_quirks |-> token.force_quirks]

\* C22: in both modes a Doctype token appends a Doctype node to the top-level
\* nodes of the document and leaves every child list as it was, wherever it
\* arrives.
DoctypeGoesToRoot ==
    [][Len(Consumed) = 1 /\ Consumed[1].type = "DocType" =>
          /\ state' # "Abort"
          /\ RootNodes' = Append(RootNodes, DoctypeNode(Consumed[1]))
          /\ elems' = elems]_vars

\* tokenize run to its end from the state s: the tokens it pushes when no
\* listener takes them, <<>> when the loop aborts or never breaks
RECURSIVE TokenizeFrom(_, _, _, _)
TokenizeFrom(s, i, t, fuel) ==
    LET after(r) ==
            IF r.it.panic \/ r.ts.panic THEN <<>>
            ELSE IF r.state = "Break"
            THEN Append(r.ts.tokens, [type |-> "EOF", location |-> Locus(r.it)])
            ELSE TokenizeFrom(r.state, r.it, r.ts, fuel - 1)
    IN IF fuel = 0 \/ Len(t.errors) >= MaxErrors THEN <<>>
       ELSE after(TokStep(s, i, t))

\* The tokens of the input
InputTokens == TokenizeFrom("Data", NewIterator, NewTokenStore, 3 * Len(input) + 8)

\* The Speculative builder fed the tokens in their order, then finished:
\* [parser, elems, abort]
SpeculativeOver(tokens) ==
    LET finished(got) ==
            IF got.abort THEN got
            ELSE [parser |-> Finish(got.parser, got.elems, <<>>),
                  elems |-> got.elems,
                  abort |-> Finish(got.parser, got.elems, <<>>).panic]
    IN finished(ReceiveAll(NewParser, <<>>, SubSeq(tokens, 1, Len(tokens) - 1)))

\* A document without its handles and spans: node kind, tag, attributes, text
\* and comment content, and the same of the children in their order
RECURSIVE Shape(_, _)
Shape(h, nodes) ==
    [k \in DOMAIN nodes |->
        IF nodes[k].type = "Element"
        THEN [type |-> "Element",
              name |-> h[nodes[k].ref].name,
              attributes |-> h[nodes[k].ref].attributes,
              child_nodes |-> Shape(h, h[nodes[k].ref].child_nodes)]
        ELSE IF nodes[k].type \in {"Text", "Comment"}
        THEN [type |-> nodes[k].type, content |-> nodes[k].content]
        ELSE nodes[k]]

\* C23: on every input on which both modes return a result, the Synchronous
\* builder returns the document the Speculative builder returns: the same
\* top-level nodes and, recursively, the same ordered child lists.
ModesBuildTheSameDocument ==
    LET same(spec) ==
            ~spec.abort =>
                Shape(elems, Unwrap(sync.result).tree)
                    = Shape(spec.elems, Unwrap(spec.parser.result).tree)
    IN state = "Done" /\ mode = "Synchronous" /\ InputTokens # <<>>
           => same(SpeculativeOver(InputTokens))

\* Both modes have returned a document in which an element has two children
ModesBuiltNestedDocument ==
    /\ state = "Done"
    /\ mode = "Synchronous"
    /\ InputTokens # <<>>
    /\ ~SpeculativeOver(InputTokens).abort
    /\ \E e \in DOMAIN elems : Len(elems[e].child_nodes) >= 2

\* C24: in Speculative mode, finishing while an element is open adds one
\* UnclosedTag diagnostic, for the current element and at its end, to the
\* builder's diagnostics and returns the tree; finishing with no element open
\* adds none.
UnclosedTagForCurrentOnly ==
    [][mode = "Speculative" /\ state = "Tokenized" /\ state' = "Done" =>
          /\ Unwrap(parser'.result).tree = parser.tree
          /\ Unwrap(parser'.result).errors =
                 ts.errors \o
                 (IF parser.current_element # 0
                  THEN Append(parser.errors,
                              Err("UnclosedTag", elems[parser.current_element].name,
                                  GetEnd(elems, parser.current_element)))
                  ELSE parser.errors)]_vars

\* The input ended inside two open elements and one UnclosedTag was recorded
UnclosedInsideTwoElements ==
    /\ mode = "Speculative"
    /\ state = "Done"
    /\ CountErrors(Diagnostics, "UnclosedTag") = 1
    /\ \E e \in DOMAIN elems :
           /\ Parent(elems, e) # 0
           /\ ~IsSome(elems[e].location.close_tag)
           /\ ~IsSome(elems[Parent(elems, e)].location.close_tag)
           /\ ~IsVoid(elems[e].name)

\* The Text tokens among the tokens
TextTokens(tokens) == {k \in DOMAIN tokens : tokens[k].type = "Text"}

\* C25: no Text token the tokenizer emits has whitespace-only content: every
\* Text token holds a character that is not whitespace.
NoWhitespaceOnlyText ==
    \A k \in TextTokens(ts.tokens) :
        \E j \in DOMAIN ts.tokens[k].content :
            ts.tokens[k].content[j] \notin AsciiWhitespace

\* tokenize has returned from an input that ends in whitespace after a tag,
\* and the whitespace made no token
WhitespaceRunDropped ==
    /\ state = "Done"
    /\ Len(input) >= 2
    /\ input[Len(input)] \in AsciiWhitespace
    /\ input[Len(input) - 1] = ">"
    /\ ts.tokens[Len(ts.tokens) - 1].type = "OpeningTag"

\* tokenize has returned from "<123></123>"
NumericTagsTokenized ==
    /\ state = "Done"
    /\ mode = "Tokenize"
    /\ input = <<"<","1","2","3",">","<","/","1","2","3",">">>

\* The kinds of the tokens, in their order
TokenTypes(tokens) == [k \in DOMAIN tokens |-> tokens[k].type]

\* C26 as stated: tokenizing "<123></123>" yields exactly two diagnostics and
\* exactly three tokens, two Comment tokens followed by EOF.
NumericTagsAreTwoBogusComments ==
    NumericTagsTokenized =>
        /\ Len(ts.errors) = 2
        /\ TokenTypes(ts.tokens) = <<"Comment", "Comment", "EOF">>

\* C26, amended: tokenizing "<123></123>" yields exactly two diagnostics, one
\* UnexpectedCharacter('1') per side, and exactly three tokens: the opening
\* side reparsed as the Text token "<123>", the closing side as the
\* bogus-comment token "123", then EOF.
NumericTagsAreTextThenBogusComment ==
    NumericTagsTokenized =>
        /\ Len(ts.errors) = 2
        /\ \A k \in 1..2 : /\ ts.errors[k].error_type = "UnexpectedCharacter"
                           /\ ts.errors[k].arg = "1"
        /\ TokenTypes(ts.tokens) = <<"Text", "Comment", "EOF">>
        /\ ts.tokens[1].content = <<"<","1","2","3",">">>
        /\ ts.tokens[2].content = <<"1","2","3">>

\* tokenize has returned from "<123></123>" with two diagnostics
NumericTagsRejected == NumericTagsTokenized /\ Len(ts.errors) = 2

\* C27: tokenizing the well-formed doctype `<!DOCTYPE html>` emits one Doctype
\* token with the root name html, records no diagnostic, and leaves
\* force_quirks unset because the name is not empty.
WellFormedDoctypeIsClean ==
    state = "Done" /\ mode = "Tokenize"
    /\ input = <<"<","!","D","O","C","T","Y","P","E"," ","h","t","m","l",">">>
        => /\ TokenTypes(ts.tokens) = <<"DocType", "EOF">>
           /\ ts.tokens[1].name = <<"h","t","m","l">>
           /\ ts.errors = <<>>
           /\ ~ts.tokens[1].force_quirks

\* The indices of the line breaks among the first n characters of the input
BreaksBefore(n) == {k \in 1..n : input[k] = "\n"}

\* The greatest of a set of naturals, 0 for the empty set
Greatest(S) == IF S = {} THEN 0 ELSE CHOOSE k \in S : \A j \in S : j <= k

\* The (row, column) of the source character that follows the first n
PositionAfter(n) ==
    <<1 + Cardinality(BreaksBefore(n)), 1 + n - Greatest(BreaksBefore(n))>>

\* C29: between the iterations of tokenize, whenever no re-queued character
\* is pending, the locus is the (row, column) of the next source character to
\* be consumed, also after the attribute-value state has re-queued a character
\* and called left(); and the EOF token's position is the position just past
\* the last input character.
LocusIsNextCharacter ==
    /\ state \in TokStates \cup {"Done"} /\ it.front = <<>> =>
           Locus(it) = PositionAfter(it.pos)
    /\ state = "Done" =>
           ts.tokens[Len(ts.tokens)].location = PositionAfter(Len(input))

(***************************************************************************)
(* QueueIterator on its own: push and next called in any order             *)
(***************************************************************************)
MaxCalls == 6
MaxSource == 2

\* The sources: every string of at most MaxSource characters
QueueSources == UNION {[1..n -> {"a", "b"}] : n \in 0..MaxSource}
\* The items pushed back
QueueItems == {"x", "y"}

QueueInit ==
    /\ input \in QueueSources
    /\ mode = "Idle"
    /\ state = "Idle"
    /\ it = NewIterator
    /\ ts = NewTokenStore
    /\ parser = NewParser
    /\ sync = NewSync
    /\ elems = <<>>
    /\ sel = SelIdle
    /\ dom = DomIdle
    /\ query = [op |-> "calls", calls |-> <<>>]

QueueRest == UNCHANGED <<input, mode, state, ts, parser, sync, elems, sel, dom>>

\* iter.push(item)
QueuePush ==
    \E item \in QueueItems :
        /\ Len(query.calls) < MaxCalls
        /\ it' = Push(it, item)
        /\ query' = [query EXCEPT !.calls = Append(@, [call |-> "push", item |-> item])]
        /\ QueueRest

\* iter.next()
QueueNext ==
    /\ Len(query.calls) < MaxCalls
    /\ it' = Next_(it).it
    /\ query' = [query EXCEPT !.calls = Append(@, [call |-> "next", item |-> Next_(it).ch])]
    /\ QueueRest

QueueStep == QueuePush \/ QueueNext

SpecQueue == QueueInit /\ [][QueueStep]_vars

\* The calls agree with a first-in first-out pushback queue in front of the
\* source: next returns the oldest pending item, and with none pending the
\* item of the source after the consumed ones, or None at its end
RECURSIVE IsFifo(_, _, _)
IsFifo(calls, pending, consumed) ==
    IF calls = <<>> THEN TRUE
    ELSE IF Head(calls).call = "push"
    THEN IsFifo(Tail(calls), Append(pending, Head(calls).item), consumed)
    ELSE IF pending # <<>>
    THEN Head(calls).item = Head(pending) /\ IsFifo(Tail(calls), Tail(pending), consumed)
    ELSE IF consumed < Len(input)
    THEN Head(calls).item = input[consumed + 1]
         /\ IsFifo(Tail(calls), pending, consumed + 1)
    ELSE Head(calls).item = None /\ IsFifo(Tail(calls), pending, consumed)

\* C28: pushed items are returned by next() before any further item of the
\* source and in the order they were pushed; once the queue is empty next()
\* resumes the source where it stopped.
PushbackIsFifo == query.op = "calls" => IsFifo(query.calls, <<>>, 0)

\* next, push x, push y, then three calls of next that return x, y and the
\* second item of the source
PushedTwoThenResumed ==
    /\ query.op = "calls"
    /\ Len(query.calls) = 6
    /\ Len(input) = 2
    /\ [k \in 1..6 |-> query.calls[k].call] = <<"next", "push", "push", "next", "next", "next">>
    /\ query.calls[2].item # query.calls[3].item
    /\ query.calls[6].item = input[2]

(***************************************************************************)
(* The token iterator of SyncHtmlParser on its own, over buffers of every  *)
(* length; a token is named by its place in the buffer                     *)
(***************************************************************************)
MaxTokens == 14

\* The token buffers tokenize can leave: at least the EOF token
TokenBuffers == {[k \in 1..n |-> k] : n \in 1..MaxTokens}

IterInit ==
    /\ TokIdle
    /\ elems = <<>>
    /\ sel = SelIdle
    /\ dom = DomIdle
    /\ \E buffer \in TokenBuffers :
           query = [op |-> "drain", buffer |-> buffer, yielded |-> <<>>,
                    ended |-> FALSE]

\* SyncHtmlParser::parse builds the parser over the buffer
IterStart ==
    /\ query.op = "drain"
    /\ sync = NewSync
    /\ query.yielded = <<>>
    /\ ~query.ended
    /\ sync' = SyncParserNew(query.buffer, <<>>)
    /\ query' = [query EXCEPT !.op = "next"]
    /\ UNCHANGED <<input, mode, state, it, ts, parser, elems, sel, dom>>

\* parser.next()
IterNext ==
    /\ query.op = "next"
    /\ ~query.ended
    /\ ~sync.panic
    /\ sync' = SyncNext(sync).sync
    /\ query' = IF IsSome(SyncNext(sync).token)
                THEN [query EXCEPT !.yielded = Append(@, Unwrap(SyncNext(sync).token))]
                ELSE [query EXCEPT !.ended = TRUE]
    /\ UNCHANGED <<input, mode, state, it, ts, parser, elems, sel, dom>>

IterStep == IterStart \/ IterNext

SpecIter == IterInit /\ [][IterStep]_vars

\* C30: the token iterator yields the tokens of the buffer front to back in
\* their original order, each exactly once, for every buffer length, and
\* yields None only once the buffer is empty.
IteratorKeepsOrder ==
    query.op = "next" =>
        /\ ~sync.panic
        /\ query.yielded = SubSeq(query.buffer, 1, Len(query.yielded))
        /\ Len(sync.tokens) = Len(query.buffer) - Len(query.yielded)
        /\ {sync.tokens[k] : k \in DOMAIN sync.tokens}
               = {query.buffer[k] : k \in (Len(query.yielded) + 1)..Len(query.buffer)}
        /\ query.ended => query.yielded = query.buffer

\* A buffer of seven tokens has been drained
DrainedSevenTokens ==
    /\ query.op = "next"
    /\ query.ended
    /\ Len(query.yielded) = 7

\* C31: in the tree parse returns, in both modes, every element in the child
\* list of an element P has parent P.
ParsedChildrenKnowTheirParent ==
    state = "Done" =>
        \A p \in DOMAIN elems : \A k \in DOMAIN elems[p].child_nodes :
            IsElement(elems[p].child_nodes[k])
                => Parent(elems, elems[p].child_nodes[k].ref) = p

(***************************************************************************)
(* Specification of attribute selectors over elements whose attributes     *)
(* come from an Opening token and from set_attribute                       *)
(***************************************************************************)
AttrKeys == {<<"a">>, ID}
AttrValues == {<<>>, <<"1">>}
AttrSelectors == {
    <<"[","a","]">>, <<"[","i","d","]">>, <<"[","a","=","'","1","'","]">>,
    <<"[","i","d","=","'","1","'","]">>, <<"b","[","a","]">>, <<"[","1","]">>}

\* <b a> and <b>, as ElementRef::init builds them from their Opening tokens
AttrElements ==
    ElementRefInit(
        ElementRefInit(<<>>, <<"b">>,
            <<[key |-> <<"a">>, value |-> NoneOpt, quote_type |-> "None"]>>, EmptySpan),
        <<"b">>, <<>>, EmptySpan)

AttrInit ==
    /\ TokIdle
    /\ elems = AttrElements
    /\ sel = SelIdle
    /\ dom = DomIdle
    /\ query = QueryIdle

\* self.set_attribute(name, value)
AttrSetAttribute ==
    \E self \in DOMAIN elems, name \in AttrKeys, value \in AttrValues :
        /\ elems' = SetAttribute(elems, self, name, value)
        /\ query' = QueryIdle
        /\ QueryRest

\* self.remove_attribute(name)
AttrRemoveAttribute ==
    \E self \in DOMAIN elems, name \in AttrKeys :
        /\ elems' = RemoveAttribute(elems, self, name)
        /\ query' = QueryIdle
        /\ QueryRest

\* self.matches(selector)
AttrMatches ==
    \E self \in DOMAIN elems, selector \in AttrSelectors :
        /\ query = QueryIdle
        /\ query' = [op |-> "matches", self |-> self, selector |-> selector,
                     result |-> Matches(elems, self, selector)]
        /\ UNCHANGED elems
        /\ QueryRest

AttrNext == AttrSetAttribute \/ AttrRemoveAttribute \/ AttrMatches

SpecAttr == AttrInit /\ [][AttrNext]_vars

\* The key of a selector that is one [key] pattern
BareKey(selector) == SubSeq(selector, 2, Len(selector) - 1)

\* C32: [key] matches every element that carries the attribute key, with a
\* value, with an empty-string value, or with no value at all.
KeySelectorMatchesCarriers ==
    (/\ query.op = "matches"
     /\ query.selector \in {<<"[","a","]">>, <<"[","i","d","]">>}
     /\ BareKey(query.selector) \in DOMAIN elems[query.self].attributes)
        => query.result.hit

\* The input after a leading "<!--"
CommentRest == SubSeq(input, 5, Len(input))

\* Where the first "-->" of s starts, 0 when s holds none
FirstClose(s) ==
    LET at == {k \in 1..(Len(s) - 2) : SubSeq(s, k, k + 2) = <<"-", "-", ">">>}
    IN IF at = {} THEN 0 ELSE CHOOSE k \in at : \A j \in at : k <= j

\* tokenize has returned from an input that opens a comment
CommentTokenized ==
    /\ state = "Done"
    /\ Len(input) >= 4
    /\ SubSeq(input, 1, 4) = <<"<", "!", "-", "-">>

\* C33: the Comment state closes at the first "-->" of the remaining input,
\* whatever run of "-" precedes it; the content is the input between "<!--"
\* and that "-->"; UnclosedComment is reported only when no "-->" remains.
CommentClosesAtFirstArrow ==
    CommentTokenized =>
        IF FirstClose(CommentRest) > 0
        THEN /\ ts.tokens[1].type = "Comment"
             /\ ts.tokens[1].content = SubSeq(CommentRest, 1, FirstClose(CommentRest) - 1)
             /\ CountErrors(ts.errors, "UnclosedComment") = 0
        ELSE CountErrors(ts.errors, "UnclosedComment") = 1

\* C34: k=v, k='v' and k="v" each give one attribute with key k and value v
\* that differ only in the quote kind; a bare k gives an attribute without a
\* value and quote kind None; the attributes are in source order.
AttributesAsWritten ==
    \A list \in AttributeLists :
        (state = "Done" /\ input = TagWith(list)) =>
            /\ ts.tokens[1].type = "OpeningTag"
            /\ ts.tokens[1].attributes = list

\* tokenize has returned from <a b d="e">
BareThenQuotedTokenized ==
    /\ state = "Done"
    /\ input = <<"<","a"," ","b"," ","d","=","\"","e","\"",">">>
    /\ Len(ts.tokens[1].attributes) = 2

\* C35: remove(P, X) with X not a child of P changes nothing: every child
\* list and every parent, the parent of X included, stay as they were.
RemoveOfNonChildChangesNothing ==
    [][\A self \in DOMAIN elems, node \in DOMAIN elems :
           (/\ dom'.op \in {"remove", "undo"}
            /\ node # self
            /\ elems' = ElementRemove(elems, self, node)
            /\ GetIndexOf(elems, self, node) = NoneOpt)
               => \A e \in DOMAIN elems :
                      /\ elems'[e].child_nodes = elems[e].child_nodes
                      /\ Parent(elems', e) = Parent(elems, e)]_vars

\* C36: S.after(N), with S a child of P, inserts N immediately after S in the
\* child list of P and keeps the other nodes in their order.
AfterInsertsBehindTheSibling ==
    [][\A self \in DOMAIN elems, node \in DOMAIN elems, p \in DOMAIN elems :
           (/\ dom'.op = "after"
            /\ node # self
            /\ elems' = ElementAfter(elems, self, node).h
            /\ Holders(elems, self) = {p}
            /\ Occurrences(elems[p].child_nodes, self) = 1)
               => elems'[p].child_nodes =
                      VecInsert(elems[p].child_nodes,
                                Unwrap(GetIndexOf(elems, p, self)) + 1,
                                ElementNode(node))]_vars

(***************************************************************************)
(* QueueIterator on its own: next_until, next_while and collect_until      *)
(* called after any pushes and nexts                                       *)
(***************************************************************************)
ScanItems == {"a", "b"} \cup QueueItems
\* The predicates, each as the set of items it accepts
ScanPredicates == {{"a"}, {"x"}, {"b", "y"}}

\* The call made last, the stream it found, and what it collected
ScanCall(op, S, collected) ==
    [op |-> op, n |-> query.n + 1, before |-> Remaining(it), S |-> S,
     collected |-> collected]

ScanInit ==
    /\ input \in QueueSources
    /\ mode = "Idle"
    /\ state = "Idle"
    /\ it = NewIterator
    /\ ts = NewTokenStore
    /\ parser = NewParser
    /\ sync = NewSync
    /\ elems = <<>>
    /\ sel = SelIdle
    /\ dom = DomIdle
    /\ query = [op |-> "new", n |-> 0, before |-> <<>>, S |-> {}, collected |-> <<>>]

\* iter.push(item)
ScanPush ==
    \E item \in QueueItems :
        /\ query.n < MaxCalls
        /\ it' = Push(it, item)
        /\ query' = ScanCall("push", {}, <<>>)
        /\ QueueRest

\* iter.next()
ScanNext ==
    /\ query.n < MaxCalls
    /\ it' = Next_(it).it
    /\ query' = ScanCall("next", {}, <<>>)
    /\ QueueRest

\* iter.next_until(f)
ScanNextUntil ==
    \E S \in ScanPredicates :
        /\ query.n < MaxCalls
        /\ it' = NextUntil(it, S)
        /\ query' = ScanCall("next_until", S, <<>>)
        /\ QueueRest

\* iter.next_while(f)
ScanNextWhile ==
    \E S \in ScanPredicates :
        /\ query.n < MaxCalls
        /\ it' = NextWhile(it, S)
        /\ query' = ScanCall("next_while", S, <<>>)
        /\ QueueRest

\* iter.collect_until(f)
ScanCollectUntil ==
    \E S \in ScanPredicates :
        /\ query.n < MaxCalls
        /\ it' = CollectUntil(it, S, <<>>).it
        /\ query' = ScanCall("collect_until", S, CollectUntil(it, S, <<>>).str)
        /\ QueueRest

ScanStep == ScanPush \/ ScanNext \/ ScanNextUntil \/ ScanNextWhile \/ ScanCollectUntil

SpecScan == ScanInit /\ [][ScanStep]_vars

\* The stream from its first item in S on, empty when it holds none
RECURSIVE SkipUntil(_, _)
SkipUntil(s, S) ==
    IF s = <<>> THEN <<>>
    ELSE IF Head(s) \in S THEN s
    ELSE SkipUntil(Tail(s), S)

\* The items of the stream before its first item in S
TakeUntil(s, S) == SubSeq(s, 1, Len(s) - Len(SkipUntil(s, S)))

\* C37: next_while, next_until and collect_until consume exactly the maximal
\* prefix of the remaining stream (pushed-back items first, then the source)
\* up to the boundary item, and leave the boundary item and everything after
\* it to next() in the original order, whatever the pushback queue holds.
ScanLeavesBoundaryAndRest ==
    /\ query.op \in {"next_until", "collect_until"}
           => Remaining(it) = SkipUntil(query.before, query.S)
    /\ query.op = "next_while"
           => Remaining(it) = SkipUntil(query.before, ScanItems \ query.S)
    /\ query.op = "collect_until"
           => query.collected = TakeUntil(query.before, query.S)

(***************************************************************************)
(* MatrixIterator on its own: next and left called in any order            *)
(***************************************************************************)
MaxMoves == 7
MaxRows == 4

\* The sources: every string of at most MaxRows characters and line breaks
MatrixSources == UNION {[1..n -> {"a", "\n"}] : n \in 0..MaxRows}

MatrixInit ==
    /\ input \in MatrixSources
    /\ mode = "Idle"
    /\ state = "Idle"
    /\ it = NewIterator
    /\ ts = NewTokenStore
    /\ parser = NewParser
    /\ sync = NewSync
    /\ elems = <<>>
    /\ sel = SelIdle
    /\ dom = DomIdle
    /\ query = [op |-> "new", calls |-> 0, lefts |-> 0]

\* matrix.next()
MatrixStepNext ==
    /\ query.calls < MaxMoves
    /\ ~it.panic
    /\ it' = MatrixNext(it).it
    /\ query' = [query EXCEPT !.op = "next", !.calls = @ + 1]
    /\ QueueRest

\* matrix.left(), never called at [1, 1]
MatrixStepLeft ==
    /\ query.calls < MaxMoves
    /\ ~it.panic
    /\ Locus(it) # <<1, 1>>
    /\ it' = Left(it)
    /\ query' = [query EXCEPT !.op = "left", !.calls = @ + 1, !.lefts = @ + 1]
    /\ QueueRest

MatrixStep == MatrixStepNext \/ MatrixStepLeft

SpecMatrix == MatrixInit /\ [][MatrixStep]_vars

\* C38: after any interleaving of n next() and k left() calls, left() never
\* called at [1,1], locus() is the position of the item k places before the
\* next item to be consumed: each left() retreats by one position, onto the
\* delimiter column of the previous row at column 1, and every later next()
\* advances by exactly one.
LocusIsBehindByTheLefts ==
    query.op \in {"next", "left"} =>
        /\ ~it.panic
        /\ query.lefts <= it.pos
        /\ Locus(it) = PositionAfter(it.pos - query.lefts)

\* Two calls of left() took the locus from the second row back over the line
\* break, and the next() that followed moved it onto the line break's column
SteppedBackOverLineBreak ==
    /\ query.op = "next"
    /\ query.lefts = 2
    /\ it.pos = 3
    /\ input[2] = "\n"
    /\ Locus(it) = <<1, 2>>

\* C39: in Speculative mode open_tags is the number of elements on the parent
\* chain from the current element to its top-level ancestor, 0 exactly when
\* there is no current element; it never goes below 0, and finish never reads
\* a missing current element.
OpenTagsCountTheOpenChain ==
    mode = "Speculative" =>
        /\ ~parser.panic
        /\ parser.open_tags = Cardinality(SelfOrAncestors(elems, parser.current_element))
        /\ parser.open_tags = 0 <=> parser.current_element = 0

\* finish has run with two elements open, one inside the other
FinishedTwoDeep ==
    /\ mode = "Speculative"
    /\ state = "Done"
    /\ parser.open_tags = 2
    /\ Parent(elems, parser.current_element) # 0

(***************************************************************************)
(* Handles of elements: ElementRef::from, clone, drop, append and remove   *)
(* called in any order on the handles a caller holds                       *)
(***************************************************************************)
MaxElements == 3
MaxHandles == 2

\* Drop for ElementRef: [h, frees].  The handle's element loses a reference;
\* at 0 the element is freed, and dropping it drops its child list and with
\* it the handles in the list
RECURSIVE DropHandle(_, _, _)
RECURSIVE DropNodes(_, _)
DropNodes(r, nodes) ==
    IF nodes = <<>> THEN r
    ELSE DropNodes(IF IsElement(Head(nodes))
                   THEN DropHandle(r.h, r.frees, Head(nodes).ref)
                   ELSE r,
                   Tail(nodes))

DropHandle(h, frees, e) ==
    IF DropRef(h, e)[e].refs # 0 THEN [h |-> DropRef(h, e), frees |-> frees]
    ELSE DropNodes([h |-> [DropRef(h, e) EXCEPT ![e].child_nodes = <<>>],
                    frees |-> [frees EXCEPT ![e] = @ + 1]],
                   h[e].child_nodes)

\* The call made last, the handles the caller holds of each element, and how
\* often each element has been freed
HandleCall(op, held, frees) == [op |-> op, held |-> held, frees |-> frees]

HandleInit ==
    /\ TokIdle
    /\ elems = <<>>
    /\ sel = SelIdle
    /\ dom = HandleCall("new", <<>>, <<>>)
    /\ query = QueryIdle

\* ElementRef::from(name)
HandleFrom ==
    /\ Len(elems) < MaxElements
    /\ elems' = ElementRefFrom(elems, HtmlTagNew(<<"a">>))
    /\ dom' = HandleCall("from", Append(dom.held, 1), Append(dom.frees, 0))
    /\ DomRest

\* handle.clone()
HandleClone ==
    \E e \in DOMAIN elems :
        /\ dom.held[e] \in 1..(MaxHandles - 1)
        /\ elems' = CloneRef(elems, e)
        /\ dom' = HandleCall("clone", [dom.held EXCEPT ![e] = @ + 1], dom.frees)
        /\ DomRest

\* drop(handle)
HandleDrop ==
    \E e \in DOMAIN elems :
        /\ dom.held[e] > 0
        /\ elems' = DropHandle(elems, dom.frees, e).h
        /\ dom' = HandleCall("drop", [dom.held EXCEPT ![e] = @ - 1],
                             DropHandle(elems, dom.frees, e).frees)
        /\ DomRest

\* self.append(&child), on handles the caller holds
HandleAppend ==
    \E self \in DOMAIN elems, child \in DOMAIN elems :
        /\ dom.held[self] > 0
        /\ dom.held[child] > 0
        /\ child # self
        /\ RoomForChild
        /\ elems' = ElementAppend(elems, self, child)
        /\ dom' = HandleCall("append", dom.held, dom.frees)
        /\ DomRest

\* self.remove(&node), on handles the caller holds
HandleRemove ==
    \E self \in DOMAIN elems, node \in DOMAIN elems :
        /\ dom.held[self] > 0
        /\ dom.held[node] > 0
        /\ node # self
        /\ elems' = ElementRemove(elems, self, node)
        /\ dom' = HandleCall("remove", dom.held, dom.frees)
        /\ DomRest

HandleNext == HandleFrom \/ HandleClone \/ HandleDrop \/ HandleAppend \/ HandleRemove

SpecHandle == HandleInit /\ [][HandleNext]_vars

\* The handles of e in the child lists of the first n elements
RECURSIVE HandlesInLists(_, _, _)
HandlesInLists(h, n, e) ==
    IF n = 0 THEN 0
    ELSE Occurrences(h[n].child_nodes, e) + HandlesInLists(h, n - 1, e)

\* The live handles of e: those the caller holds and those in child lists
LiveHandles(e) == dom.held[e] + HandlesInLists(elems, Len(elems), e)

\* C40: under any sequence of handle creation, clone, drop, append and
\* remove, an element is freed exactly when its count of live handles reaches
\* 0 and never twice, and the parent back-link of every live element is None
\* or refers to an element that has not been freed.
FreedAtZeroAndParentsAlive ==
    \A e \in DOMAIN elems :
        /\ elems[e].refs = LiveHandles(e)
        /\ dom.frees[e] = (IF LiveHandles(e) = 0 THEN 1 ELSE 0)
        /\ (dom.frees[e] = 0 /\ Parent(elems, e) # 0)
               => dom.frees[Parent(elems, e)] = 0
====
